---- MODULE Spec2Model ----
(***************************************************************************)
(* A model of usdb_syncer: the synchronization store (db/__init__.py), the *)
(* directory registry (utils.py), the chart parser/serializer              *)
(* (notes_parser.py) and the per-song download pipeline (song_loader.py,   *)
(* usdb_dl.py).  Every subsystem has its own variables and its own         *)
(* specification; a specification leaves the other subsystems' variables   *)
(* at their initial value.                                                 *)
(***************************************************************************)
EXTENDS Integers, Sequences, FiniteSets, TLC

(***************************************************************************)
(* Bounds of the model.                                                    *)
(***************************************************************************)
NumWorkers == 2
MaxSongId == 2
MaxVersion == 2
MaxSuffix == 2
MaxTicks == 1
StartTime == 10000
TickSeconds == 4000
MaxOptional == 2
MaxLines == 5
MaxBeat == 2
MaxSyncMetaId == 2
MaxHeaderLines == 3
MaxRecords == 4

\* utils.py:17 (60 * 60)
CACHE_LIFETIME == 3600

\* db/__init__.py:16
SCHEMA_VERSION == 1

\* The threads that use the store: the pipelines of the worker pool.
Workers == 1..NumWorkers
SongIds == 1..MaxSongId
Versions == 1..MaxVersion
NoWorker == 0

VARIABLES
    \* ---- SyncStore (db/__init__.py) ----
    lock,            \* _DbState.lock: the worker holding it, or NoWorker
    connection,      \* _DbState._connection: "None", "Open" or "Closed"
    in_transaction,  \* the sqlite connection has an open BEGIN
    store,           \* the committed content of the database file
    work,            \* usdb_song as the connection sees it (uncommitted included)
    pc,              \* where each worker is in its current store call
    exc,             \* the exception in flight in each worker's call
    result,          \* how each worker's last call ended
    begun,           \* usdb_song as committed when the worker's BEGIN ran
    call             \* the store function each worker called last

VARIABLES
    \* ---- the tables of the store and their rows (db/__init__.py) ----
    usdb_song,       \* the song_id of every row of usdb_song
    sync_meta,       \* sync_meta_id and song_id of every row of sync_meta
    resource_file    \* sync_meta_id and kind of every row of resource_file

VARIABLES
    \* ---- DirectoryCache and next_unique_directory (utils.py) ----
    cache,           \* DirectoryCache._cache: path -> time of insertion, 0 if none
    disk,            \* the directories that exist when the calls are made
    clock,           \* time.time()
    dpc,             \* where each worker is in next_unique_directory
    dpath,           \* its argument `path`
    suffix,          \* its local `suffix`
    out_path,        \* its local `out_path`
    tnow,            \* the local `now` of the insert() it is in
    returned,        \* the path its last call returned
    overlap,         \* the workers whose calls ran during its call
    before,          \* the registry and the time when the latest call began
    handed           \* the paths returned so far, each with the time of its entry

VARIABLES
    \* ---- one song's download pipeline (song_loader.py, usdb_dl.py) ----
    remote,          \* the catalog's entry of the song: exists, text
    folders,         \* <id>.usdb in each of the song's folders, by folder name
    written,         \* the files the run has created or replaced
    rpc,             \* the stage the run executes next, "idle" between runs
    impl,            \* the run() that is running: "SongLoader" or "Worker"
    details,         \* local `details`: the comments hold a video id
    songtext,        \* local `songtext`
    header,          \* local `header`
    has_video,       \* local `has_video`
    outcome,         \* how each resource stage of the run ended
    ended            \* how the last run ended

VARIABLES
    \* ---- concurrent runs and their target folders (song_loader.py, usdb_dl.py) ----
    app,             \* the run() the application starts: "SongLoader" or "Worker"
    jobs,            \* per song id: where its run is, and its local `pathname`
    tree,            \* the folders that exist below the song directory
    touched          \* per song id: the folders its last run created or wrote into

VARIABLES
    \* ---- the duet reassignment of run() (song_loader.py, usdb_dl.py) ----
    flat,            \* `notes` as parse_notes returned it
    dnotes,          \* local `notes`
    idx,             \* local `idx` of the for loop
    prev_start,      \* local `prev_start`
    dstage           \* where run() is: "start", "loop" or "done"

VARIABLES
    \* ---- SearchBuilder and search_usdb_songs (db/__init__.py) ----
    search,          \* the SearchBuilder passed to search_usdb_songs
    found            \* the rows the statement returned, NotSearched before

VARIABLES
    \* ---- SongTxt: parsing and writing a chart (notes_parser.py) ----
    chart,           \* a SongTxt: headers, unknown headers, notes
    txt,             \* str(chart), as its lines
    reparsed         \* SongTxt.try_parse(txt)

VARIABLES
    \* ---- SongTxt.try_parse step by step, and str() of its result ----
    input,           \* `value`, as `lines` before anything is consumed
    stream,          \* local `lines`: the lines not consumed yet
    tstage,          \* where try_parse is
    song,            \* the SongTxt being built, returned when tstage = "returned"
    plines,          \* local `notes` of _player_lines: the Lines kept so far
    cur,             \* the Line the latest Line.parse returned, <<>> before
    warned,          \* the messages given to logger.warning
    output           \* str(song), as its lines, <<>> before

dbVars == <<lock, connection, in_transaction, store, work, pc, exc, result,
           begun, call>>

rowVars == <<usdb_song, sync_meta, resource_file>>

dirVars == <<before, cache, disk, clock, dpc, dpath, suffix, out_path, tnow, returned,
            overlap, handed>>

pipeVars == <<remote, folders, written, rpc, impl, details, songtext, header,
             has_video, outcome, ended>>

jobVars == <<app, jobs, tree, touched>>

duetVars == <<flat, dnotes, idx, prev_start, dstage>>

searchVars == <<search, found>>

chartVars == <<chart, txt, reparsed>>

parseVars == <<input, stream, tstage, song, plines, cur, warned, output>>

vars == <<dbVars, rowVars, dirVars, pipeVars, jobVars, duetVars, searchVars,
          chartVars, parseVars>>

\* What an action of one subsystem leaves alone: the other subsystems.
ParseFrame ==
    UNCHANGED <<dbVars, rowVars, dirVars, pipeVars, jobVars, duetVars, searchVars,
                chartVars>>
RowsFrame ==
    UNCHANGED <<dbVars, dirVars, pipeVars, jobVars, duetVars, searchVars, chartVars,
                parseVars>>
DbFrame ==
    UNCHANGED <<rowVars, dirVars, pipeVars, jobVars, duetVars, searchVars, chartVars,
                parseVars>>
DirFrame ==
    UNCHANGED <<rowVars, dbVars, pipeVars, jobVars, duetVars, searchVars, chartVars,
                parseVars>>
PipeFrame ==
    UNCHANGED <<rowVars, dbVars, dirVars, jobVars, duetVars, searchVars, chartVars,
                parseVars>>
JobFrame ==
    UNCHANGED <<rowVars, dbVars, dirVars, pipeVars, duetVars, searchVars, chartVars,
                parseVars>>
DuetFrame ==
    UNCHANGED <<rowVars, dbVars, dirVars, pipeVars, jobVars, searchVars, chartVars,
                parseVars>>
SearchFrame ==
    UNCHANGED <<rowVars, dbVars, dirVars, pipeVars, jobVars, duetVars, chartVars,
                parseVars>>
ChartFrame ==
    UNCHANGED <<rowVars, dbVars, dirVars, pipeVars, jobVars, duetVars, searchVars,
                parseVars>>

(***************************************************************************)
(* SyncStore                                                               *)
(***************************************************************************)
NoSnapshot == {0}

\* The database files connect() can be pointed at: no schema yet, a store of
\* this version, a store stamped by another version, a store whose meta
\* table holds no row.
Stores ==
    {[schema |-> FALSE, meta |-> {}, usdb_song |-> {}]}
    \cup {[schema |-> TRUE, meta |-> m, usdb_song |-> {}] :
            m \in {{v} : v \in Versions} \cup {{}}}

DbStart(files) ==
    /\ lock = NoWorker
    /\ connection = "None"
    /\ in_transaction = FALSE
    /\ store \in files
    /\ work = store.usdb_song
    /\ pc = [w \in Workers |-> "idle"]
    /\ exc = [w \in Workers |-> "none"]
    /\ result = [w \in Workers |-> "none"]
    /\ begun = [w \in Workers |-> NoSnapshot]
    /\ call = [w \in Workers |-> "none"]

DbInit == DbStart(Stores)

\* The store is not used: no database file yet, no call made.
DbIdle == DbStart({[schema |-> FALSE, meta |-> {}, usdb_song |-> {}]})

\* _DbState.connection(): the error it raises, "none" when it returns the
\* connection.
connection_MutNoCheck == "none"

connection_error ==
    IF connection = "None" THEN "DatabaseError" ELSE "none"

\* What sqlite raises for a statement on the connection _DbState.connection()
\* returned: ProgrammingError on a closed connection, OperationalError when
\* the tables do not exist.
execute_error ==
    IF connection_error # "none" THEN connection_error
    ELSE IF connection = "Closed" THEN "ProgrammingError"
    ELSE IF ~store.schema THEN "OperationalError"
    ELSE "none"

\* The statements of the store's write and read functions on usdb_song.
Statements ==
    {[op |-> "upsert_usdb_song", song_id |-> s] : s \in SongIds}
    \cup {[op |-> "delete_usdb_song", song_id |-> s] : s \in SongIds}
    \cup {[op |-> "delete_all_usdb_songs", song_id |-> 0],
          [op |-> "usdb_song_count", song_id |-> 0]}

IsWrite(st) == st.op # "usdb_song_count"

Apply(rows, st) ==
    CASE st.op = "upsert_usdb_song" -> rows \cup {st.song_id}
      [] st.op = "delete_usdb_song" -> rows \ {st.song_id}
      [] st.op = "delete_all_usdb_songs" -> {}
      [] OTHER -> rows

\* The effect of one statement on the shared connection, which is in
\* autocommit mode (isolation_level=None): outside a BEGIN it is committed
\* at once, inside one it joins the open transaction.
Execute(st) ==
    IF execute_error # "none"
    THEN UNCHANGED <<store, work>>
    ELSE /\ work' = Apply(work, st)
         /\ store' = IF in_transaction THEN store
                     ELSE [store EXCEPT !.usdb_song = Apply(work, st)]

\* upsert_usdb_song, delete_usdb_song, delete_all_usdb_songs,
\* usdb_song_count called outside transaction().
Statement(w, st) ==
    /\ DbFrame
    /\ pc[w] = "idle"
    /\ Execute(st)
    /\ result' = [result EXCEPT ![w] = IF execute_error = "none" THEN "ok"
                                       ELSE execute_error]
    /\ call' = [call EXCEPT ![w] = st.op]
    /\ UNCHANGED <<lock, connection, in_transaction, pc, exc, begun>>

\* `with _DbState.lock:` taking the guard: it blocks while another worker
\* holds it (threading.Lock).
acquire_MutNoBlock(w) == lock' = w

acquire(w) ==
    /\ lock = NoWorker
    /\ lock' = w

\* Leaving `with _DbState.lock:`, normally or by an exception.
release_MutKeep(w) == UNCHANGED lock

release(w) == lock' = NoWorker

\* transaction(), line 63: enter the guard.
TxAcquire(w) ==
    /\ DbFrame
    /\ pc[w] = "idle"
    /\ acquire(w)
    /\ pc' = [pc EXCEPT ![w] = "tx_begin"]
    /\ exc' = [exc EXCEPT ![w] = "none"]
    /\ result' = [result EXCEPT ![w] = "none"]
    /\ call' = [call EXCEPT ![w] = "transaction"]
    /\ UNCHANGED <<connection, in_transaction, store, work, begun>>

\* The error of execute("BEGIN"): sqlite refuses a BEGIN inside a BEGIN.
begin_error ==
    IF connection_error # "none" THEN connection_error
    ELSE IF connection = "Closed" THEN "ProgrammingError"
    ELSE IF in_transaction THEN "OperationalError"
    ELSE "none"

\* transaction(), line 65: _DbState.connection().execute("BEGIN").
TxBegin(w) ==
    /\ DbFrame
    /\ pc[w] = "tx_begin"
    /\ IF begin_error # "none"
       THEN /\ exc' = [exc EXCEPT ![w] = begin_error]
            /\ pc' = [pc EXCEPT ![w] = "tx_except"]
            /\ UNCHANGED <<in_transaction, begun>>
       ELSE /\ in_transaction' = TRUE
            /\ begun' = [begun EXCEPT ![w] = store.usdb_song]
            /\ pc' = [pc EXCEPT ![w] = "tx_body"]
            /\ UNCHANGED exc
    /\ UNCHANGED <<lock, connection, store, work, result, call>>

\* transaction(), line 66: the caller's body runs a store function; its
\* error, if any, propagates out of the body into the except clause.
TxBodyStatement(w, st) ==
    /\ DbFrame
    /\ pc[w] = "tx_body"
    /\ Execute(st)
    /\ IF execute_error # "none"
       THEN /\ exc' = [exc EXCEPT ![w] = execute_error]
            /\ pc' = [pc EXCEPT ![w] = "tx_except"]
       ELSE UNCHANGED <<exc, pc>>
    /\ UNCHANGED <<lock, connection, in_transaction, result, begun, call>>

\* The caller's body raises an exception of its own.
TxBodyRaise(w) ==
    /\ DbFrame
    /\ pc[w] = "tx_body"
    /\ exc' = [exc EXCEPT ![w] = "BodyError"]
    /\ pc' = [pc EXCEPT ![w] = "tx_except"]
    /\ UNCHANGED <<lock, connection, in_transaction, store, work, result, begun, call>>

\* The caller's body ends: control returns after the yield.
TxBodyDone(w) ==
    /\ DbFrame
    /\ pc[w] = "tx_body"
    /\ pc' = [pc EXCEPT ![w] = "tx_commit"]
    /\ UNCHANGED <<lock, connection, in_transaction, store, work, exc, result, begun, call>>

\* The error of rollback() and commit() on the connection.
end_error ==
    IF connection_error # "none" THEN connection_error
    ELSE IF connection = "Closed" THEN "ProgrammingError"
    ELSE "none"

\* connection.rollback(): the uncommitted statements are undone.
rollback_MutCommit ==
    /\ store' = [store EXCEPT !.usdb_song = work]
    /\ UNCHANGED work
    /\ in_transaction' = FALSE

rollback ==
    /\ work' = store.usdb_song
    /\ UNCHANGED store
    /\ in_transaction' = FALSE

\* connection.commit(): the statements since BEGIN become the content of
\* the file.
commit_MutDrop ==
    /\ work' = store.usdb_song
    /\ UNCHANGED store
    /\ in_transaction' = FALSE

commit ==
    /\ store' = [store EXCEPT !.usdb_song = work]
    /\ UNCHANGED work
    /\ in_transaction' = FALSE

\* transaction(), lines 67-69: except Exception: rollback(); raise.  An
\* error of _DbState.connection() or of rollback() replaces the one caught.
TxRollback(w) ==
    /\ DbFrame
    /\ pc[w] = "tx_except"
    /\ IF end_error # "none"
       THEN /\ exc' = [exc EXCEPT ![w] = end_error]
            /\ UNCHANGED <<store, work, in_transaction>>
       ELSE /\ rollback
            /\ UNCHANGED exc
    /\ pc' = [pc EXCEPT ![w] = "lock_exit"]
    /\ UNCHANGED <<lock, connection, result, begun, call>>

\* transaction(), line 70: _DbState.connection().commit().
TxCommit(w) ==
    /\ DbFrame
    /\ pc[w] = "tx_commit"
    /\ IF end_error # "none"
       THEN /\ exc' = [exc EXCEPT ![w] = end_error]
            /\ UNCHANGED <<store, work, in_transaction>>
       ELSE /\ commit
            /\ UNCHANGED exc
    /\ pc' = [pc EXCEPT ![w] = "lock_exit"]
    /\ UNCHANGED <<lock, connection, result, begun, call>>

\* The end of `with _DbState.lock:` in transaction() and in connect(): the
\* guard is released and the call returns or raises.
LockExit(w) ==
    /\ DbFrame
    /\ pc[w] = "lock_exit"
    /\ release(w)
    /\ result' = [result EXCEPT ![w] = IF exc[w] = "none" THEN "ok" ELSE exc[w]]
    /\ exc' = [exc EXCEPT ![w] = "none"]
    /\ begun' = [begun EXCEPT ![w] = NoSnapshot]
    /\ pc' = [pc EXCEPT ![w] = "idle"]
    /\ UNCHANGED <<connection, in_transaction, store, work, call>>

\* _DbState.connect(), line 40: enter the guard.
ConnectAcquire(w) ==
    /\ DbFrame
    /\ pc[w] = "idle"
    /\ acquire(w)
    /\ pc' = [pc EXCEPT ![w] = "connect_open"]
    /\ exc' = [exc EXCEPT ![w] = "none"]
    /\ result' = [result EXCEPT ![w] = "none"]
    /\ call' = [call EXCEPT ![w] = "connect"]
    /\ UNCHANGED <<connection, in_transaction, store, work, begun>>

\* The verdict of _validate_schema on the file: "create" when there is no
\* meta table, "UnknownSchemaError" when the meta table has no row or its
\* version is not SCHEMA_VERSION, "ok" otherwise.
validate_MutAcceptAny(file) ==
    IF ~file.schema THEN "create" ELSE "ok"

validate_MutRestamp(file) ==
    IF ~file.schema \/ file.meta # {SCHEMA_VERSION} THEN "create" ELSE "ok"

_validate_schema(file) ==
    IF ~file.schema THEN "create"
    ELSE IF file.meta = {} \/ (\E v \in file.meta : v # SCHEMA_VERSION)
    THEN "UnknownSchemaError"
    ELSE "ok"

\* _validate_schema, lines 78-82: the setup script creates the tables and one
\* row (id 1) with SCHEMA_VERSION is inserted into meta.
setup_MutNoStamp(file) ==
    [schema |-> TRUE, meta |-> {}, usdb_song |-> file.usdb_song]

setup(file) ==
    [schema |-> TRUE, meta |-> {SCHEMA_VERSION}, usdb_song |-> file.usdb_song]

\* _DbState.connect(), lines 41-46: cls._connection = sqlite3.connect(...),
\* then _validate_schema(cls._connection).  A connection it replaces is
\* dropped with whatever it had not committed.  The connection stays the
\* current one when _validate_schema raises.
Connect(w) ==
    /\ DbFrame
    /\ pc[w] = "connect_open"
    /\ connection' = "Open"
    /\ in_transaction' = FALSE
    /\ work' = store.usdb_song
    /\ CASE _validate_schema(store) = "create" ->
              /\ store' = setup(store)
              /\ UNCHANGED exc
         [] _validate_schema(store) = "UnknownSchemaError" ->
              /\ exc' = [exc EXCEPT ![w] = "UnknownSchemaError"]
              /\ UNCHANGED store
         [] OTHER -> UNCHANGED <<store, exc>>
    /\ pc' = [pc EXCEPT ![w] = "lock_exit"]
    /\ UNCHANGED <<lock, result, begun, call>>

\* _DbState.close(), lines 56-57: the connection is closed, which undoes
\* what it had not committed; close() takes no guard.
CloseConnection(w) ==
    /\ DbFrame
    /\ pc[w] = "idle"
    /\ IF connection = "None"
       THEN /\ result' = [result EXCEPT ![w] = "ok"]
            /\ UNCHANGED <<connection, in_transaction, work, pc>>
       ELSE /\ connection' = "Closed"
            /\ in_transaction' = FALSE
            /\ work' = store.usdb_song
            /\ pc' = [pc EXCEPT ![w] = "close_reset"]
            /\ result' = [result EXCEPT ![w] = "none"]
    /\ call' = [call EXCEPT ![w] = "close"]
    /\ UNCHANGED <<lock, store, exc, begun>>

\* _DbState.close(), line 58: _DbState._connection = None.
CloseReset(w) ==
    /\ DbFrame
    /\ pc[w] = "close_reset"
    /\ connection' = "None"
    /\ in_transaction' = FALSE
    /\ work' = store.usdb_song
    /\ pc' = [pc EXCEPT ![w] = "idle"]
    /\ result' = [result EXCEPT ![w] = "ok"]
    /\ UNCHANGED <<lock, store, exc, begun, call>>

NextDb ==
    \E w \in Workers :
        \/ \E st \in Statements : Statement(w, st)
        \/ TxAcquire(w)
        \/ TxBegin(w)
        \/ \E st \in Statements : TxBodyStatement(w, st)
        \/ TxBodyRaise(w)
        \/ TxBodyDone(w)
        \/ TxRollback(w)
        \/ TxCommit(w)
        \/ LockExit(w)
        \/ ConnectAcquire(w)
        \/ Connect(w)
        \/ CloseConnection(w)
        \/ CloseReset(w)

\* transaction() and connect() as calls that wait: a worker that has called
\* one of them stands before `with _DbState.lock:` until the guard is free.
\* A body that calls transaction() or connect() stands there as well, while
\* its own worker holds the guard (threading.Lock is not re-entrant).
WaitStages == {"tx_wait", "connect_wait"}
ReenterStages == {"tx_reenter", "connect_reenter"}

\* transaction() and connect() are called; line 63 and line 40 are reached.
GuardedCall(w, function) ==
    /\ DbFrame
    /\ pc[w] = "idle"
    /\ pc' = [pc EXCEPT ![w] = IF function = "transaction" THEN "tx_wait"
                                ELSE "connect_wait"]
    /\ exc' = [exc EXCEPT ![w] = "none"]
    /\ result' = [result EXCEPT ![w] = "none"]
    /\ call' = [call EXCEPT ![w] = function]
    /\ UNCHANGED <<lock, connection, in_transaction, store, work, begun>>

\* transaction(), line 66: the caller's body calls transaction() or
\* connect() itself.
BodyCalls(w, function) ==
    /\ DbFrame
    /\ pc[w] = "tx_body"
    /\ pc' = [pc EXCEPT ![w] = IF function = "transaction" THEN "tx_reenter"
                                ELSE "connect_reenter"]
    /\ UNCHANGED <<lock, connection, in_transaction, store, work, exc, result,
                   begun, call>>

\* `with _DbState.lock:` of line 63 and of line 40: the guard is taken when
\* it is free.
GuardEnter_MutReentrant(w) ==
    /\ DbFrame
    /\ pc[w] \in WaitStages \cup ReenterStages
    /\ lock \in {NoWorker, w}
    /\ lock' = w
    /\ pc' = [pc EXCEPT ![w] = IF pc[w] \in {"tx_wait", "tx_reenter"}
                                THEN "tx_begin" ELSE "connect_open"]
    /\ UNCHANGED <<connection, in_transaction, store, work, exc, result, begun,
                   call>>

GuardEnter(w) ==
    /\ DbFrame
    /\ pc[w] \in WaitStages \cup ReenterStages
    /\ acquire(w)
    /\ pc' = [pc EXCEPT ![w] = IF pc[w] \in {"tx_wait", "tx_reenter"}
                                THEN "tx_begin" ELSE "connect_open"]
    /\ UNCHANGED <<connection, in_transaction, store, work, exc, result, begun,
                   call>>

\* The steps a worker takes by itself once it holds the guard.
Proceed(w) ==
    TxBegin(w) \/ TxRollback(w) \/ TxCommit(w) \/ LockExit(w) \/ Connect(w)

\* The steps that end the body of a transaction.
BodyEnds(w) == TxBodyDone(w) \/ TxBodyRaise(w)

NextDbWait ==
    \E w \in Workers :
        \/ \E function \in {"transaction", "connect"} : GuardedCall(w, function)
        \/ GuardEnter(w)
        \/ \E function \in {"transaction", "connect"} : BodyCalls(w, function)
        \/ \E st \in Statements : TxBodyStatement(w, st)
        \/ BodyEnds(w)
        \/ Proceed(w)
        \/ CloseConnection(w)
        \/ CloseReset(w)

(***************************************************************************)
(* The rows of usdb_song, sync_meta and resource_file, and the functions   *)
(* that insert and delete them, called by one caller on the autocommit     *)
(* connection.  A row is held by its key and by the key it refers to.      *)
(***************************************************************************)
SyncMetaIds == 1..MaxSyncMetaId

\* ResourceFileKind
ResourceFileKinds == {"txt", "audio", "video", "cover", "background"}

RowsInit ==
    /\ usdb_song = {}
    /\ sync_meta = {}
    /\ resource_file = {}

\* The tables are not used.
RowsIdle == RowsInit

\* The rows of a referencing table that the engine deletes by itself when
\* the rows they refer to are deleted.  The schema declares no automatic
\* cascade: none.
cascaded(rows, column, parents) == {}

\* "DELETE FROM usdb_song WHERE song_id = ?"
delete_usdb_song(song_id) ==
    /\ RowsFrame
    /\ song_id \in usdb_song
    /\ usdb_song' = usdb_song \ {song_id}
    /\ sync_meta' = sync_meta \ cascaded(sync_meta, "song_id", {song_id})
    /\ UNCHANGED resource_file

\* "DELETE FROM usdb_song"
delete_all_usdb_songs ==
    /\ RowsFrame
    /\ usdb_song # {}
    /\ usdb_song' = {}
    /\ sync_meta' = sync_meta \ cascaded(sync_meta, "song_id", usdb_song)
    /\ UNCHANGED resource_file

\* upsert_usdb_song(params), upsert_usdb_songs(params): a row per song_id.
upsert_usdb_songs(params) ==
    /\ RowsFrame
    /\ params # {}
    /\ usdb_song' = usdb_song \cup params
    /\ UNCHANGED <<sync_meta, resource_file>>

\* upsert_sync_meta(params), upsert_sync_metas(params): the row with the
\* sync_meta_id is replaced.  The caller passes the id of a song that the
\* store holds.
upsert_sync_meta(sync_meta_id, song_id) ==
    /\ RowsFrame
    /\ song_id \in usdb_song
    /\ sync_meta' =
           {m \in sync_meta : m.sync_meta_id # sync_meta_id}
               \cup {[sync_meta_id |-> sync_meta_id, song_id |-> song_id]}
    /\ UNCHANGED <<usdb_song, resource_file>>

\* "DELETE FROM sync_meta WHERE sync_meta_id = ?" and "... IN (?, ..., ?)"
delete_sync_metas(ids) ==
    /\ RowsFrame
    /\ \E m \in sync_meta : m.sync_meta_id \in ids
    /\ sync_meta' = {m \in sync_meta : m.sync_meta_id \notin ids}
    /\ resource_file' =
           resource_file \ cascaded(resource_file, "sync_meta_id", ids)
    /\ UNCHANGED usdb_song

delete_sync_meta(sync_meta_id) == delete_sync_metas({sync_meta_id})

\* upsert_resource_files(params): a row per (sync_meta_id, kind).  The caller
\* passes the files of one sync meta that the store holds.
upsert_resource_files(sync_meta_id, kinds) ==
    /\ RowsFrame
    /\ kinds # {}
    /\ \E m \in sync_meta : m.sync_meta_id = sync_meta_id
    /\ resource_file' =
           resource_file
               \cup {[sync_meta_id |-> sync_meta_id, kind |-> k] : k \in kinds}
    /\ UNCHANGED <<usdb_song, sync_meta>>

\* "DELETE FROM resource_file WHERE (sync_meta_id, kind) IN ((?, ?), ...)"
delete_resource_files(ids) ==
    /\ RowsFrame
    /\ ids \cap resource_file # {}
    /\ resource_file' = resource_file \ ids
    /\ UNCHANGED <<usdb_song, sync_meta>>

NextRows ==
    \/ \E song_id \in SongIds : delete_usdb_song(song_id)
    \/ delete_all_usdb_songs
    \/ \E params \in SUBSET SongIds : upsert_usdb_songs(params)
    \/ \E sync_meta_id \in SyncMetaIds, song_id \in SongIds :
           upsert_sync_meta(sync_meta_id, song_id)
    \/ \E sync_meta_id \in SyncMetaIds : delete_sync_meta(sync_meta_id)
    \/ \E ids \in SUBSET SyncMetaIds : delete_sync_metas(ids)
    \/ \E sync_meta_id \in SyncMetaIds, kinds \in SUBSET ResourceFileKinds :
           upsert_resource_files(sync_meta_id, kinds)
    \/ \E sync_meta_id \in SyncMetaIds, kinds \in SUBSET ResourceFileKinds :
           delete_resource_files(
               {[sync_meta_id |-> sync_meta_id, kind |-> k] : k \in kinds})

(***************************************************************************)
(* DirectoryCache and next_unique_directory                                *)
(***************************************************************************)
\* A path is a directory name followed by the " (n)" suffixes appended to
\* it: "Artist - Title (1)" is [name |-> "Artist - Title", sfx |-> <<1>>].
SongDirName == "Artist - Title"
NoPath == [name |-> "", sfx |-> <<>>]

\* The paths callers ask for: a name, and the same name already suffixed.
BasePaths == {[name |-> SongDirName, sfx |-> <<>>],
              [name |-> SongDirName, sfx |-> <<1>>]}

\* path.with_name(f"{path.name} ({suffix})")
with_name(path, n) == [path EXCEPT !.sfx = Append(@, n)]

Paths == BasePaths \cup {with_name(b, n) : b \in BasePaths, n \in 1..MaxSuffix}

DirStart(disks) ==
    /\ cache = [p \in Paths |-> 0]
    /\ disk \in disks
    /\ clock = StartTime
    /\ dpc = [w \in Workers |-> "idle"]
    /\ dpath = [w \in Workers |-> NoPath]
    /\ suffix = [w \in Workers |-> 0]
    /\ out_path = [w \in Workers |-> NoPath]
    /\ tnow = [w \in Workers |-> 0]
    /\ returned = [w \in Workers |-> NoPath]
    /\ overlap = [w \in Workers |-> {}]
    /\ before = [cache |-> cache, clock |-> clock]
    /\ handed = {}

DirInit == DirStart(SUBSET BasePaths)

\* No directory is allocated.
DirIdle == DirStart({{}})

\* The workers that are inside next_unique_directory.
Allocating == {w \in Workers : dpc[w] # "idle"}

\* next_unique_directory, lines 138-139.
NextUniqueDirectory(w, path) ==
    /\ DirFrame
    /\ dpc[w] = "idle"
    /\ dpath' = [dpath EXCEPT ![w] = path]
    /\ out_path' = [out_path EXCEPT ![w] = path]
    /\ suffix' = [suffix EXCEPT ![w] = 0]
    /\ returned' = [returned EXCEPT ![w] = NoPath]
    /\ dpc' = [dpc EXCEPT ![w] = "insert"]
    /\ overlap' = [v \in Workers |->
                      IF v = w THEN Allocating
                      ELSE IF v \in Allocating THEN overlap[v] \cup {w}
                      ELSE overlap[v]]
    /\ before' = [cache |-> cache, clock |-> clock]
    /\ UNCHANGED <<cache, disk, clock, tnow, handed>>

\* The body of the while loop, lines 141-142.
NextCandidate(w) ==
    /\ suffix' = [suffix EXCEPT ![w] = suffix[w] + 1]
    /\ out_path' = [out_path EXCEPT ![w] = with_name(dpath[w], suffix[w] + 1)]
    /\ dpc' = [dpc EXCEPT ![w] = "insert"]

\* DirectoryCache.insert, line 59: the entry is missing or has expired.
Expired_MutAlways(path, now) == TRUE

Expired_MutInclusive(path, now) == cache[path] + CACHE_LIFETIME <= now

Expired(path, now) == cache[path] + CACHE_LIFETIME < now

\* DirectoryCache.insert, lines 58-59 and 62: now = time.time() and the
\* test of the entry.  No lock is held: another worker's insert() can run
\* between this test and the assignment of line 60.
InsertTest(w) ==
    /\ DirFrame
    /\ dpc[w] = "insert"
    /\ IF Expired(out_path[w], clock)
       THEN /\ tnow' = [tnow EXCEPT ![w] = clock]
            /\ dpc' = [dpc EXCEPT ![w] = "insert_store"]
            /\ UNCHANGED <<suffix, out_path>>
       ELSE /\ suffix[w] < MaxSuffix
            /\ NextCandidate(w)
            /\ UNCHANGED tnow
    /\ UNCHANGED <<cache, disk, clock, dpath, returned, overlap, before, handed>>

\* DirectoryCache.insert, lines 60-61: cls._cache[path] = now; return True.
InsertStore(w) ==
    /\ DirFrame
    /\ dpc[w] = "insert_store"
    /\ cache' = [cache EXCEPT ![out_path[w]] = tnow[w]]
    /\ tnow' = [tnow EXCEPT ![w] = 0]
    /\ dpc' = [dpc EXCEPT ![w] = "exists"]
    /\ UNCHANGED <<disk, clock, dpath, suffix, out_path, returned, overlap,
                   before, handed>>

\* Path.exists()
exists_MutNever(path) == FALSE

exists(path) == path \in disk

\* next_unique_directory, lines 140 and 143: out_path.exists() after an
\* insert() that returned True, and the return.
PathExists(w) ==
    /\ DirFrame
    /\ dpc[w] = "exists"
    /\ IF exists(out_path[w])
       THEN /\ suffix[w] < MaxSuffix
            /\ NextCandidate(w)
            /\ UNCHANGED <<returned, handed>>
       ELSE /\ returned' = [returned EXCEPT ![w] = out_path[w]]
            /\ handed' = handed \cup {[path |-> out_path[w],
                                        time |-> cache[out_path[w]]]}
            /\ dpc' = [dpc EXCEPT ![w] = "idle"]
            /\ suffix' = [suffix EXCEPT ![w] = 0]
            /\ out_path' = [out_path EXCEPT ![w] = NoPath]
    /\ UNCHANGED <<cache, disk, clock, dpath, tnow, overlap, before>>

\* Time passes.
Tick ==
    /\ DirFrame
    /\ clock < StartTime + MaxTicks * TickSeconds
    /\ clock' = clock + TickSeconds
    /\ UNCHANGED <<cache, disk, dpc, dpath, suffix, out_path, tnow, returned,
                   overlap, before, handed>>

\* One caller at a time: the calls of next_unique_directory follow each
\* other, the directories of earlier sessions exist, and time passes in
\* steps that reach the lifetime of an entry exactly and pass it.
Caller == CHOOSE w \in Workers : TRUE

\* The times at which the caller looks at the clock: the start, the moment
\* an entry made at the start reaches its lifetime, and shortly after each.
Times == {StartTime + lifetime + second :
              lifetime \in {0, CACHE_LIFETIME}, second \in {0, 1}}

Sleep(until) ==
    /\ DirFrame
    /\ clock < until
    /\ clock' = until
    /\ UNCHANGED <<cache, disk, dpc, dpath, suffix, out_path, tnow, returned,
                   overlap, before, handed>>

DirSeqInit == DirStart(SUBSET BasePaths)

NextDirSeq ==
    \/ \E path \in BasePaths : NextUniqueDirectory(Caller, path)
    \/ InsertTest(Caller)
    \/ InsertStore(Caller)
    \/ PathExists(Caller)
    \/ \E until \in Times : Sleep(until)

NextDir ==
    \/ \E w \in Workers : \E path \in BasePaths : NextUniqueDirectory(w, path)
    \/ \E w \in Workers : InsertTest(w)
    \/ \E w \in Workers : InsertStore(w)
    \/ \E w \in Workers : PathExists(w)
    \/ Tick

(***************************************************************************)
(* The download pipeline of one song: SongLoader.run (song_loader.py) and  *)
(* Worker.run (usdb_dl.py).  The catalog client, the resource fetcher and  *)
(* the chart writer are external: their results are chosen freely.         *)
(***************************************************************************)
Variants == {"SongLoader", "Worker"}
ResourceStages == {"audio", "video", "cover", "background"}

\* The #VIDEO line of a chart text: absent, or present with or without the
\* resource tags a= and v=.
NoLine == [present |-> FALSE, a |-> FALSE, v |-> FALSE]
VideoLines == {NoLine} \cup {[present |-> TRUE, a |-> x, v |-> y] : x, y \in BOOLEAN}

\* The chart texts the catalog can hold for the song.
Texts == [video : VideoLines]
NoText == [video |-> NoLine]

\* The content of a file that holds a text; NoFile if the file does not exist.
NoFile == <<>>
File(text) == <<text>>

\* header, as far as the stages read and write it.
RunHeaders == [VIDEO : {"absent", "tag", "file"}, MP3 : {"absent", "file"},
            COVER : {"absent", "file"}, BACKGROUND : {"absent", "file"}]
NoHeader == [VIDEO |-> "absent", MP3 |-> "absent", COVER |-> "absent",
             BACKGROUND |-> "absent"]

\* note_utils.parse_notes / SongTxt.try_parse: the header of a fetched text.
parse_notes(text) ==
    [NoHeader EXCEPT !.VIDEO = IF text.video.present THEN "tag" ELSE "absent"]

\* generate_dirname(header, has video tag): "Artist - Title", marked when the
\* text names a video.
generate_dirname(text) == IF text.video.v THEN "Artist - Title [VIDEO]"
                          ELSE "Artist - Title"
DirNames == {generate_dirname(t) : t \in Texts}

NoOutcome == [s \in ResourceStages |-> "none"]

\* The locals of run() before the fetch and after the return.
NoLocals ==
    /\ details = FALSE
    /\ songtext = NoText
    /\ header = NoHeader
    /\ has_video = FALSE

PipeStart(entries) ==
    /\ remote \in entries
    /\ folders = [d \in DirNames |-> NoFile]
    /\ written = {}
    /\ rpc = "idle"
    /\ impl = "SongLoader"
    /\ NoLocals
    /\ outcome = NoOutcome
    /\ ended = "none"

PipeInit == PipeStart([exists : BOOLEAN, text : Texts])

\* No run has been started.
PipeIdle == PipeStart({[exists |-> FALSE, text |-> NoText]})

\* The catalog entry changes: the song is edited, deleted or restored.
RemoteChange(entry) ==
    /\ PipeFrame
    /\ rpc = "idle"
    /\ entry # remote
    /\ remote' = entry
    /\ UNCHANGED <<folders, written, rpc, impl, details, songtext, header,
                   has_video, outcome, ended>>

\* A run is started for the song.
StartRun(variant) ==
    /\ PipeFrame
    /\ rpc = "idle"
    /\ impl' = variant
    /\ rpc' = "fetch"
    /\ written' = {}
    /\ outcome' = NoOutcome
    /\ UNCHANGED <<remote, folders, details, songtext, header, has_video, ended>>

\* run() returns.
Return(how) ==
    /\ rpc' = "idle"
    /\ ended' = how
    /\ details' = FALSE
    /\ songtext' = NoText
    /\ header' = NoHeader
    /\ has_video' = FALSE

\* usdb_scraper.get_usdb_details(song_id) is None / `exists`
details_MutAlwaysExists == TRUE

get_usdb_details == remote.exists

\* (1/6) get_usdb_details, then get_notes and the parse.
Fetch(video_params) ==
    /\ PipeFrame
    /\ rpc = "fetch"
    /\ IF ~get_usdb_details
       THEN Return("deleted")
       ELSE /\ details' = video_params
            /\ songtext' = remote.text
            /\ header' = parse_notes(remote.text)
            /\ rpc' = "diff"
            /\ UNCHANGED <<ended, has_video>>
    /\ UNCHANGED <<remote, folders, written, impl, outcome>>

\* filecmp.cmp(temp.usdb, <id>.usdb)
filecmp_MutNeverEqual(f1, f2) == FALSE

filecmp_cmp(f1, f2) == f1 = f2

\* The folder of the running run: `pathname`.
pathname == generate_dirname(songtext)

\* os.rename(temp.usdb, <id>.usdb), after os.remove(<id>.usdb) if it exists
rename_MutKeepsOld(files, path, text) == files

os_rename(files, path, text) == [files EXCEPT ![path] = File(text)]

\* (1/6) continued: makedirs, temp.usdb, the comparison with <id>.usdb.
Diff ==
    /\ PipeFrame
    /\ rpc = "diff"
    /\ IF folders[pathname] # NoFile /\ filecmp_cmp(File(songtext), folders[pathname])
       THEN \* temp.usdb is removed again
            /\ Return("identical")
            /\ UNCHANGED <<folders, written>>
       ELSE /\ folders' = os_rename(folders, pathname, songtext)
            /\ written' = written \cup {"usdb"}
            /\ rpc' = "audio"
            /\ UNCHANGED <<ended, details, songtext, header, has_video>>
    /\ UNCHANGED <<remote, impl, outcome>>

\* The resource fetcher has written the file of a stage.
Fetched(kind) == written \cup {kind}

\* header.pop("#VIDEO")
pop_MutKeep(h) == h

pop_VIDEO(h) == [h EXCEPT !.VIDEO = "absent"]

\* The reference the audio stage resolves: a=, else v=, else (Worker.run
\* only) the video id found in the comments.
audio_resource ==
    \/ songtext.video.a
    \/ songtext.video.v
    \/ (impl = "Worker" /\ details)

\* (2/6) the audio stage; `ok` is the fetcher's result.
Audio(enabled, ok) ==
    /\ PipeFrame
    /\ rpc = "audio"
    /\ IF enabled /\ audio_resource
       THEN /\ header' = [pop_VIDEO(header) EXCEPT
                             !.MP3 = IF ok THEN "file" ELSE @]
            /\ written' = IF ok THEN Fetched("audio") ELSE written
            /\ outcome' = [outcome EXCEPT
                              !["audio"] = IF ok THEN "ok" ELSE "failed"]
       ELSE /\ outcome' = [outcome EXCEPT !["audio"] = "skipped"]
            /\ UNCHANGED <<header, written>>
    /\ rpc' = "video"
    /\ UNCHANGED <<remote, folders, impl, details, songtext, has_video, ended>>

\* The reference the video stage resolves: v=, else (Worker.run only, and
\* only without a=) the video id found in the comments.
video_resource ==
    \/ songtext.video.v
    \/ (impl = "Worker" /\ ~songtext.video.a /\ details)

\* Worker.run, line 160: the warning of the video stage formats the local
\* `audio_resource`, which is bound only by the walrus expressions of the
\* audio stage (lines 104-111).  With the audio download disabled the name
\* is unbound when the video id comes from the comments, and the f-string
\* raises UnboundLocalError out of run().
audio_resource_unbound ==
    /\ impl = "Worker"
    /\ ~songtext.video.v
    /\ ~songtext.video.a
    /\ details
    /\ outcome["audio"] = "skipped"

\* (3/6) the video stage.
Video(enabled, ok) ==
    /\ PipeFrame
    /\ rpc = "video"
    /\ IF enabled /\ audio_resource_unbound
       THEN /\ Return("raised")
            /\ UNCHANGED <<written, outcome>>
       ELSE /\ IF enabled /\ video_resource
               THEN /\ has_video' = ok
                    /\ header' = [header EXCEPT
                                     !.VIDEO = IF ok THEN "file" ELSE @]
                    /\ written' = IF ok THEN Fetched("video") ELSE written
                    /\ outcome' = [outcome EXCEPT
                                      !["video"] = IF ok THEN "ok" ELSE "failed"]
               ELSE /\ has_video' = FALSE
                    /\ outcome' = [outcome EXCEPT !["video"] = "skipped"]
                    /\ UNCHANGED <<header, written>>
            /\ rpc' = "cover"
            /\ UNCHANGED <<details, songtext, ended>>
    /\ UNCHANGED <<remote, folders, impl>>

\* (4/6) the cover stage.
Cover_MutRepeatsAudio(enabled, ok) ==
    /\ PipeFrame
    /\ rpc = "cover"
    /\ outcome' = [outcome EXCEPT !["cover"] = "skipped"]
    /\ rpc' = "audio"
    /\ UNCHANGED <<remote, folders, written, impl, details, songtext, header,
                   has_video, ended>>

Cover(enabled, ok) ==
    /\ PipeFrame
    /\ rpc = "cover"
    /\ IF enabled
       THEN /\ header' = [header EXCEPT !.COVER = IF ok THEN "file" ELSE @]
            /\ written' = IF ok THEN Fetched("cover") ELSE written
            /\ outcome' = [outcome EXCEPT
                              !["cover"] = IF ok THEN "ok" ELSE "failed"]
       ELSE /\ outcome' = [outcome EXCEPT !["cover"] = "skipped"]
            /\ UNCHANGED <<header, written>>
    /\ rpc' = "background"
    /\ UNCHANGED <<remote, folders, impl, details, songtext, has_video, ended>>

BackgroundPolicies == {"always", "only if no video"}

\* dl_background_when / BackgroundOptions.download_background(has_video)
download_MutIgnoresVideo(when) ==
    when = "always" \/ when = "only if no video"

download_background(when) ==
    when = "always" \/ (~has_video /\ when = "only if no video")

\* (5/6) the background stage.
Background(enabled, when, ok) ==
    /\ PipeFrame
    /\ rpc = "background"
    /\ IF enabled /\ download_background(when)
       THEN /\ header' = [header EXCEPT !.BACKGROUND = IF ok THEN "file" ELSE @]
            /\ written' = IF ok THEN Fetched("background") ELSE written
            /\ outcome' = [outcome EXCEPT
                              !["background"] = IF ok THEN "ok" ELSE "failed"]
       ELSE /\ outcome' = [outcome EXCEPT !["background"] = "skipped"]
            /\ UNCHANGED <<header, written>>
    /\ rpc' = "write"
    /\ UNCHANGED <<remote, folders, impl, details, songtext, has_video, ended>>

\* (6/6) dump_notes writes the chart with the headers as the stages left them.
WriteChart(enabled, ok) ==
    /\ PipeFrame
    /\ rpc = "write"
    /\ written' = IF enabled /\ ok THEN written \cup {"txt"} ELSE written
    /\ Return("completed")
    /\ UNCHANGED <<remote, folders, impl, outcome>>

\* The process is shut down while the run is in a stage after the snapshot
\* was stored: the run ends where it is, its files stay as they are.
AfterDiff == ResourceStages \cup {"write"}

Abort ==
    /\ PipeFrame
    /\ rpc \in AfterDiff
    /\ Return("aborted")
    /\ UNCHANGED <<remote, folders, written, impl, outcome>>

NextPipe ==
    \/ \E entry \in [exists : BOOLEAN, text : Texts] : RemoteChange(entry)
    \/ \E variant \in Variants : StartRun(variant)
    \/ \E video_params \in BOOLEAN : Fetch(video_params)
    \/ Diff
    \/ \E enabled, ok \in BOOLEAN : Audio(enabled, ok)
    \/ \E enabled, ok \in BOOLEAN : Video(enabled, ok)
    \/ \E enabled, ok \in BOOLEAN : Cover(enabled, ok)
    \/ \E enabled, ok \in BOOLEAN, when \in BackgroundPolicies :
           Background(enabled, when, ok)
    \/ \E enabled, ok \in BOOLEAN : WriteChart(enabled, ok)
    \/ Abort


(***************************************************************************)
(* Runs of different songs at the same time (QUMainWindow.download_songs   *)
(* starts one Worker per id on the thread pool) and the folders they write *)
(* to: lines 67-102 of SongLoader.run, 78-98 of Worker.run.                *)
(***************************************************************************)
\* str(n), as the sequence of its decimal digits.
RECURSIVE str(_)
str(n) == IF n < 10 THEN <<n>> ELSE Append(str(n \div 10), n % 10)

\* str.zfill(width)
RECURSIVE zfill(_, _)
zfill(digits, width) ==
    IF Len(digits) >= width THEN digits ELSE zfill(<<0>> \o digits, width)

\* Worker.run, line 35: idp = str(id).zfill(5)
IDP_WIDTH == 5

\* The last component of `pathname`: str(self.song_id) in SongLoader.run,
\* idp in Worker.run.
id_component(variant, song_id) ==
    IF variant = "Worker" THEN zfill(str(song_id), IDP_WIDTH) ELSE str(song_id)

\* os.path.join(song_dir, dirname, <id>)
join_MutNoId(dirname, component) == [dirname |-> dirname, id |-> <<>>]

os_path_join(dirname, component) == [dirname |-> dirname, id |-> component]

NoPathname == [dirname |-> "", id |-> <<>>]

\* Every pathname a run can compute.
Pathnames ==
    {os_path_join(d, id_component(v, i)) :
         d \in DirNames, v \in Variants, i \in SongIds}

\* No run has been started and the song directory is empty; the folders of
\* earlier runs are made by the runs of the model.
JobsStart(variants) ==
    /\ app \in variants
    /\ jobs = [i \in SongIds |-> [at |-> "idle", pathname |-> NoPathname]]
    /\ tree = {}
    /\ touched = [i \in SongIds |-> {}]

JobsInit == JobsStart(Variants)

JobsIdle == JobsStart({"SongLoader"})

Touch(song_id) == [touched EXCEPT ![song_id] = @ \cup {jobs[song_id].pathname}]

At(song_id, place) == [jobs EXCEPT ![song_id].at = place]

\* The run of a song computes dirname from the headers of the text it
\* fetched, and pathname from dirname and the song id.
ComputePathname(song_id, dirname) ==
    /\ JobFrame
    /\ jobs[song_id].at = "idle"
    /\ jobs' = [jobs EXCEPT
                   ![song_id] = [at |-> "makedirs",
                                 pathname |-> os_path_join(dirname,
                                                 id_component(app, song_id))]]
    /\ touched' = [touched EXCEPT ![song_id] = {}]
    /\ UNCHANGED <<app, tree>>

\* if not os.path.exists(pathname): os.makedirs(pathname)
MakeDirs(song_id) ==
    /\ JobFrame
    /\ jobs[song_id].at = "makedirs"
    /\ IF jobs[song_id].pathname \in tree
       THEN UNCHANGED <<tree, touched>>
       ELSE /\ tree' = tree \cup {jobs[song_id].pathname}
            /\ touched' = Touch(song_id)
    /\ jobs' = At(song_id, "temp")
    /\ UNCHANGED app

\* temp.usdb is written, then removed again or renamed to <id>.usdb.
WriteSnapshot(song_id, identical) ==
    /\ JobFrame
    /\ jobs[song_id].at = "temp"
    /\ touched' = Touch(song_id)
    /\ jobs' = IF identical
               THEN [jobs EXCEPT ![song_id] = [at |-> "idle",
                                               pathname |-> NoPathname]]
               ELSE At(song_id, "files")
    /\ UNCHANGED <<app, tree>>

\* Stages 2/6 to 6/6 write their files below pathname (path_base), and the
\* run returns.
WriteFiles(song_id) ==
    /\ JobFrame
    /\ jobs[song_id].at = "files"
    /\ touched' = Touch(song_id)
    /\ jobs' = [jobs EXCEPT ![song_id] = [at |-> "idle", pathname |-> NoPathname]]
    /\ UNCHANGED <<app, tree>>

NextJobs ==
    \/ \E song_id \in SongIds, dirname \in DirNames :
           ComputePathname(song_id, dirname)
    \/ \E song_id \in SongIds : MakeDirs(song_id)
    \/ \E song_id \in SongIds, identical \in BOOLEAN :
           WriteSnapshot(song_id, identical)
    \/ \E song_id \in SongIds : WriteFiles(song_id)

(***************************************************************************)
(* The duet reassignment of run(): lines 50-63 of SongLoader.run, 57-74 of *)
(* Worker.run.  `notes` is the list of the lines of the chart body; a line *)
(* is its first field and, for a note or a line break, its start beat.     *)
(***************************************************************************)
\* line.startswith((":", "*", "F", "R", "G"))
NotePrefixes == {":", "*", "F", "R", "G"}

P1 == [tag |-> "P1", start |-> 0]
P2 == [tag |-> "P2", start |-> 0]

\* The start beats of the model, a negative one included.
Beats == -1..MaxBeat

\* The lines of a flat body: a note for every start beat (golden on the
\* highest beat, normal otherwise) and a line break.
BodyLines ==
    {[tag |-> IF beat = MaxBeat THEN "*" ELSE ":", start |-> beat] : beat \in Beats}
        \cup {[tag |-> "-", start |-> 0]}

RECURSIVE Lists(_, _)
Lists(items, n) ==
    IF n = 0 THEN {<<>>}
    ELSE LET shorter == Lists(items, n - 1)
         IN  shorter \cup {Append(list, item) : list \in shorter, item \in items}

FlatBodies == Lists(BodyLines, MaxLines)

DuetStart(bodies) ==
    /\ flat \in bodies
    /\ dnotes = flat
    /\ idx = 0
    /\ prev_start = 0
    /\ dstage = "start"

DuetInit == DuetStart(FlatBodies)

\* No chart is being reassigned.
DuetIdle == DuetStart({<<>>})

\* list.insert(i, x), i counted from 0
insert(list, i, x) == SubSeq(list, 1, i) \o <<x>> \o SubSeq(list, i + 1, Len(list))

\* int(start) < prev_start
regresses_MutInclusive(start) == start <= prev_start

regresses_MutNever(start) == FALSE

regresses(start) == start < prev_start

\* notes.insert(0, "P1\n"); prev_start = 0
InsertP1 ==
    /\ DuetFrame
    /\ dstage = "start"
    /\ dnotes' = insert(dnotes, 0, P1)
    /\ prev_start' = 0
    /\ idx' = 0
    /\ dstage' = "loop"
    /\ UNCHANGED flat

\* One round of `for idx, line in enumerate(notes)`: the iterator hands out
\* the element that is at position idx of the list now, insertions of
\* earlier rounds included.
ForLine ==
    /\ DuetFrame
    /\ dstage = "loop"
    /\ idx < Len(dnotes)
    /\ LET line == dnotes[idx + 1]
       IN  IF line.tag \in NotePrefixes
           THEN /\ dnotes' = IF regresses(line.start)
                             THEN insert(dnotes, idx, P2)
                             ELSE dnotes
                /\ prev_start' = line.start
           ELSE UNCHANGED <<dnotes, prev_start>>
    /\ idx' = idx + 1
    /\ UNCHANGED <<flat, dstage>>

\* The iterator is exhausted.
EndFor ==
    /\ DuetFrame
    /\ dstage = "loop"
    /\ idx >= Len(dnotes)
    /\ dstage' = "done"
    /\ UNCHANGED <<flat, dnotes, idx, prev_start>>

NextDuet == InsertP1 \/ ForLine \/ EndFor

(***************************************************************************)
(* SearchBuilder (db/__init__.py): the WHERE clause as the sequence of its *)
(* tokens, its positional parameters, and the clause evaluated the way SQL *)
(* reads it (AND binds tighter than OR).                                   *)
(***************************************************************************)
\* max_views of an open-ended range
None == -1

\* The rows of usdb_song, each with the sync_meta_id the statement's join
\* gives it ("NULL" when the song has no SyncMeta row).
Table ==
    [artist : {"queen", "abba"}, title : {"angel", "hero"},
     edition : {"singstar", "disney"}, language : {"english", "german"},
     golden_notes : BOOLEAN, rating : {4, 5}, views : {99, 100, 200},
     sync_meta_id : {"NULL", "id"}]

\* The builders a caller can pass.  `text` is held as text.split(" ") gives
\* it: a sequence of words, "" for the empty one; an optional bool is <<>>
\* for None.
Builders ==
    [text : {<<"">>, <<"queen">>},
     artists : {<<>>, <<"queen">>, <<"queen", "abba">>},
     titles : {<<>>, <<"angel">>},
     editions : {<<>>, <<"disney">>},
     languages : {<<>>, <<"german">>},
     golden_notes : {<<>>, <<TRUE>>, <<FALSE>>},
     ratings : {<<>>, <<5>>, <<4, 5>>},
     views : {<<>>, <<<<100, None>>>>, <<<<0, 100>>>>,
              <<<<100, 200>>, <<0, 100>>>>, <<<<0, 100>>, <<200, None>>>>},
     downloaded : {<<>>, <<TRUE>>, <<FALSE>>}]

NotSearched == [searched |-> FALSE, rows |-> {}]

SearchStart(builders) ==
    /\ search \in builders
    /\ found = NotSearched

SearchInit == SearchStart(Builders)

\* No search is made.
SearchIdle ==
    SearchStart({[text |-> <<"">>, artists |-> <<>>, titles |-> <<>>,
                  editions |-> <<>>, languages |-> <<>>, golden_notes |-> <<>>,
                  ratings |-> <<>>, views |-> <<>>, downloaded |-> <<>>]})

AND == <<[kind |-> "AND"]>>
OR == <<[kind |-> "OR"]>>

\* sep.join(clauses)
RECURSIVE join(_, _)
join(sep, clauses) ==
    IF clauses = <<>> THEN <<>>
    ELSE IF Len(clauses) = 1 THEN Head(clauses)
    ELSE Head(clauses) \o sep \o join(sep, Tail(clauses))

\* Each whitespace-separated word becomes a phrase; empty words are dropped.
_fts5_phrases(text) == SelectSeq(text, LAMBDA word : word # "")

\* "<attribute> IN (?, ..., ?)"
_in_values_clause(attribute, values) ==
    <<[kind |-> "IN", attr |-> attribute, n |-> Len(values)]>>

\* "<attribute> >= ?" or "<attribute> >= ? AND <attribute> < ?"
range_clause(attribute, val) ==
    IF val[2] = None
    THEN <<[kind |-> ">=", attr |-> attribute]>>
    ELSE <<[kind |-> ">=", attr |-> attribute]>> \o AND
             \o <<[kind |-> "<", attr |-> attribute]>>

in_ranges_MutAnd(attribute, values) ==
    join(AND, [i \in 1..Len(values) |-> range_clause(attribute, values[i])])

_in_ranges_clause(attribute, values) ==
    join(OR, [i \in 1..Len(values) |-> range_clause(attribute, values[i])])

\* A filter that is yielded only under its condition.
yield_if(condition, clause) == IF condition THEN <<clause>> ELSE <<>>

\* SearchBuilder._filters: the clauses, in the order they are yielded.
_filters(b) ==
    yield_if(_fts5_phrases(b.text) # <<>>, <<[kind |-> "MATCH"]>>)
    \o yield_if(b.artists # <<>>, _in_values_clause("artist", b.artists))
    \o yield_if(b.titles # <<>>, _in_values_clause("title", b.titles))
    \o yield_if(b.editions # <<>>, _in_values_clause("edition", b.editions))
    \o yield_if(b.languages # <<>>, _in_values_clause("language", b.languages))
    \o yield_if(b.golden_notes # <<>>, <<[kind |-> "=", attr |-> "golden_notes"]>>)
    \o yield_if(b.ratings # <<>>, _in_values_clause("rating", b.ratings))
    \o yield_if(b.views # <<>>, _in_ranges_clause("views", b.views))
    \o yield_if(b.downloaded # <<>>,
                <<[kind |-> IF b.downloaded = <<TRUE>> THEN "IS NOT NULL"
                            ELSE "IS NULL",
                   attr |-> "sync_meta_id"]>>)

\* SearchBuilder._where_clause: <<>> when there is no WHERE.
_where_clause(b) == join(AND, _filters(b))

\* SearchBuilder.parameters
parameters_MutYieldsNone(b) ==
    (IF _fts5_phrases(b.text) # <<>> THEN <<_fts5_phrases(b.text)>> ELSE <<>>)
    \o b.artists \o b.titles \o b.editions \o b.languages
    \o b.golden_notes
    \o b.ratings
    \o join(<<>>, [i \in 1..Len(b.views) |-> <<b.views[i][1], b.views[i][2]>>])

parameters(b) ==
    (IF _fts5_phrases(b.text) # <<>> THEN <<_fts5_phrases(b.text)>> ELSE <<>>)
    \o b.artists \o b.titles \o b.editions \o b.languages
    \o b.golden_notes
    \o b.ratings
    \o join(<<>>, [i \in 1..Len(b.views) |->
                     IF b.views[i][2] = None THEN <<b.views[i][1]>>
                     ELSE <<b.views[i][1], b.views[i][2]>>])

\* The number of `?` in a comparison.
placeholders(tok) ==
    CASE tok.kind = "IN" -> tok.n
      [] tok.kind \in {"MATCH", "=", ">=", "<"} -> 1
      [] OTHER -> 0

\* The words the full-text index holds for a row.
indexed(row) == {row.artist, row.title, row.edition, row.language}

\* A comparison holds of a row, its `?` bound to params[p], params[p+1], ...
holds(tok, params, p, row) ==
    CASE tok.kind = "MATCH" ->
             \A i \in 1..Len(params[p]) : params[p][i] \in indexed(row)
      [] tok.kind = "IN" -> \E j \in 0..(tok.n - 1) : row[tok.attr] = params[p + j]
      [] tok.kind = "=" -> row[tok.attr] = params[p]
      [] tok.kind = ">=" -> row[tok.attr] >= params[p]
      [] tok.kind = "<" -> row[tok.attr] < params[p]
      [] tok.kind = "IS NULL" -> row[tok.attr] = "NULL"
      [] tok.kind = "IS NOT NULL" -> row[tok.attr] # "NULL"

\* sqlite binds the parameters to the `?` in the order they appear: each
\* token of the clause with the index of its first parameter.
RECURSIVE bind(_, _)
bind(where, p) ==
    IF where = <<>> THEN <<>>
    ELSE <<[tok |-> Head(where), p |-> p]>>
             \o bind(Tail(where), p + placeholders(Head(where)))

\* AND binds tighter than OR: the clause is the disjunction of the stretches
\* between its ORs, each given by the positions that delimit it.
disjuncts(bound) ==
    LET cuts == {0, Len(bound) + 1}
                    \cup {i \in 1..Len(bound) : bound[i].tok.kind = "OR"}
    IN {d \in cuts \X cuts :
            /\ d[1] < d[2]
            /\ ~\E c \in cuts : d[1] < c /\ c < d[2]}

\* The clause holds of a row.
evaluate(bound, stretches, params, row) ==
    \E d \in stretches :
        \A i \in (d[1] + 1)..(d[2] - 1) :
            \/ bound[i].tok.kind = "AND"
            \/ holds(bound[i].tok, params, bound[i].p, row)

\* connection.execute(statement, parameters): the rows selected.
select(bound, stretches, params) ==
    {row \in Table : evaluate(bound, stretches, params, row)}

execute(where, params) ==
    IF where = <<>> THEN Table
    ELSE select(bind(where, 1), disjuncts(bind(where, 1)), params)

\* search_usdb_songs(search)
search_usdb_songs ==
    /\ SearchFrame
    /\ found = NotSearched
    /\ found' = [searched |-> TRUE,
                  rows |-> execute(_where_clause(search), parameters(search))]
    /\ UNCHANGED search

NextSearch == search_usdb_songs

(***************************************************************************)
(* SongTxt, Headers, PlayerNotes, Line and Note (notes_parser.py).  A text *)
(* is the sequence of its non-empty lines; a header line is its name and   *)
(* its value, a note line its five fields.  An optional attribute is <<>>  *)
(* for None and <<v>> for the value v; a dict is the sequence of its items *)
(* in insertion order.                                                     *)
(***************************************************************************)
\* The attributes of Headers that hold strings, floats and ints.
StrFields == {"title", "artist", "language", "edition", "genre", "album",
              "year", "creator", "mp3", "cover", "background", "relative",
              "video", "p1", "p2", "encoding", "comment", "resolution"}
FloatFields == {"bpm", "gap", "videogap", "start", "end", "previewstart"}
IntFields == {"medleystartbeat", "medleyendbeat"}
Fields == StrFields \cup FloatFields \cup IntFields

\* The keys Headers.__str__ writes, in its order.
WrittenKeys ==
    <<"artist", "title", "language", "edition", "year", "genre", "album",
      "creator", "bpm", "gap", "videogap", "start", "end", "previewstart",
      "medleystartbeat", "medleyendbeat", "mp3", "video", "cover",
      "background", "p1", "p2", "relative", "resolution", "comment">>

\* A header name as a string: its letters and how they are cased.
upper(key) == [key EXCEPT !.case = "upper"]
lower(key) == [key EXCEPT !.case = "lower"]
AUTHOR == [name |-> "author", case |-> "upper"]

\* A value as text: a string, or the digits str() gives a float or an int.
Str(s) == [form |-> "str", text |-> s, num |-> 0]
str_float(x) == [form |-> "float", text |-> "", num |-> x]
str_int(n) == [form |-> "int", text |-> "", num |-> n]

\* str(val) of an attribute of Headers
str_value(key, val) ==
    IF key \in FloatFields THEN str_float(val)
    ELSE IF key \in IntFields THEN str_int(val)
    ELSE Str(val)

\* Headers with every optional attribute at its default.
DefaultHeaders ==
    [key \in Fields |->
        IF key \in {"title", "artist"} THEN <<key>>
        ELSE IF key \in {"bpm", "gap"} THEN <<0>>
        ELSE <<>>]

\* Headers.__str__: the lines "#KEY:val" of the attributes that are set, then
\* those of the unknown headers.
headers_MutWritesNone(headers, unknown) ==
    [i \in 1..Len(WrittenKeys) |->
        [t |-> "#", key |-> upper([name |-> WrittenKeys[i], case |-> "lower"]),
         value |-> IF headers[WrittenKeys[i]] = <<>> THEN Str("None")
                   ELSE str_value(WrittenKeys[i], headers[WrittenKeys[i]][1])]]
    \o [i \in 1..Len(unknown) |->
        [t |-> "#", key |-> upper(unknown[i].key),
         value |-> Str(unknown[i].value)]]

headers_str(headers, unknown) ==
    LET present == SelectSeq(WrittenKeys, LAMBDA key : headers[key] # <<>>)
    IN [i \in 1..Len(present) |->
            [t |-> "#", key |-> upper([name |-> present[i], case |-> "lower"]),
             value |-> str_value(present[i], headers[present[i]][1])]]
       \o [i \in 1..Len(unknown) |->
            [t |-> "#", key |-> upper(unknown[i].key),
             value |-> Str(unknown[i].value)]]

\* Note.__str__
note_str(note) ==
    [t |-> "note", kind |-> note.kind, start |-> note.start,
     duration |-> note.duration, pitch |-> note.pitch, text |-> note.text]

\* Line.__str__: the notes, then "- <beat>" or "- <beat> <beat>" if the line
\* has a break.
line_str(line) ==
    [i \in 1..Len(line.notes) |-> note_str(line.notes[i])]
    \o (IF line.line_break = <<>> THEN <<>>
        ELSE <<[t |-> "-", beats |-> line.line_break, next |-> <<>>]>>)

RECURSIVE lines_str(_)
lines_str(lines) ==
    IF lines = <<>> THEN <<>> ELSE line_str(Head(lines)) \o lines_str(Tail(lines))

\* PlayerNotes.__str__
notes_str(notes) ==
    (IF notes.player_2 # <<>>
     THEN <<[t |-> "P1"]>> \o lines_str(notes.player_1)
              \o <<[t |-> "P2"]>> \o lines_str(notes.player_2)
     ELSE lines_str(notes.player_1))
    \o <<[t |-> "E"]>>

\* SongTxt.__str__
songtxt_str(c) == headers_str(c.headers, c.unknown) \o notes_str(c.notes)

\* float(value.replace(",", ".")) and int(value): <<>> stands for ValueError.
float(value) == IF value.form \in {"float", "int"} THEN <<value.num>> ELSE <<>>
int(value) == IF value.form = "int" THEN <<value.num>> ELSE <<>>

\* kwargs["unknown"][header] = value
dict_set(items, key, value) ==
    IF \E i \in 1..Len(items) : items[i].key = key
    THEN [i \in 1..Len(items) |->
             IF items[i].key = key THEN [key |-> key, value |-> value]
             ELSE items[i]]
    ELSE Append(items, [key |-> key, value |-> value])

\* The text of a value as the string it is.
as_str(value) == value.text

\* The name a header is filed under: "creator" for AUTHOR, else lower-cased.
header_name(key) ==
    IF key = AUTHOR THEN [name |-> "creator", case |-> "lower"] ELSE lower(key)

\* _set_header_value(kwargs, header, value); kwargs is the pair of the
\* attributes set so far and the unknown headers.  A ValueError leaves
\* kwargs as it is (the caller logs it).
_set_header_value(kwargs, key, value) ==
    LET attribute == header_name(key).name
    IN IF attribute \in StrFields
       THEN [kwargs EXCEPT !.headers[attribute] = <<as_str(value)>>]
       ELSE IF attribute \in FloatFields
       THEN IF float(value) = <<>> THEN kwargs
            ELSE [kwargs EXCEPT !.headers[attribute] = float(value)]
       ELSE IF attribute \in IntFields
       THEN IF int(value) = <<>> THEN kwargs
            ELSE [kwargs EXCEPT !.headers[attribute] = int(value)]
       ELSE [kwargs EXCEPT
                !.unknown = dict_set(@, header_name(key), as_str(value))]

\* A header line whose value is empty is ignored.
empty_value(value) == value.form = "str" /\ value.text = ""

\* A header line without ":" has no value at all.
NoValue == [form |-> "none", text |-> "", num |-> 0]
no_separator(value) == value.form = "none"

\* _set_header_value raises ValueError: float() or int() rejects the value.
value_error(key, value) ==
    LET attribute == header_name(key).name
    IN \/ attribute \in FloatFields /\ float(value) = <<>>
       \/ attribute \in IntFields /\ int(value) = <<>>

\* Headers.parse, lines 203-217: consumes the leading header lines.  kwargs
\* starts with no attribute set; the result is kwargs, the lines left and
\* the warnings logged.
RECURSIVE headers_loop(_, _, _)
headers_loop(lines, kwargs, log) ==
    IF lines = <<>> \/ Head(lines).t # "#"
    THEN [kwargs |-> kwargs, rest |-> lines, log |-> log]
    ELSE IF no_separator(Head(lines).value)
    THEN headers_loop(Tail(lines), kwargs, Append(log, "header without value"))
    ELSE IF empty_value(Head(lines).value)
    THEN headers_loop(Tail(lines), kwargs, log)
    ELSE IF value_error(Head(lines).key, Head(lines).value)
    THEN headers_loop(Tail(lines), kwargs, Append(log, "invalid header value"))
    ELSE headers_loop(Tail(lines),
                      _set_header_value(kwargs, Head(lines).key, Head(lines).value),
                      log)

\* Headers.parse, lines 218-219: NotesParseError without title or artist.
missing_title_or_artist(kwargs) ==
    kwargs.headers["title"] = <<>> \/ kwargs.headers["artist"] = <<>>

\* Headers.parse, lines 220-221
bpm_warning(kwargs) ==
    IF kwargs.headers["bpm"] = <<>> THEN <<"missing bpm">> ELSE <<>>

\* cls(**kwargs): the attributes not given take their defaults.
Headers_init(kwargs) ==
    [key \in Fields |->
        IF kwargs.headers[key] # <<>> THEN kwargs.headers[key]
        ELSE IF key \in {"bpm", "gap"} THEN <<0>>
        ELSE <<>>]

\* Note.parse: the line matches the regex when its kind is a note kind, its
\* duration has no sign and its text is not empty.
NoteKinds == {":", "*", "F", "R", "G"}
is_note(ln) ==
    /\ ln.t = "note"
    /\ ln.kind \in NoteKinds
    /\ ln.duration >= 0
    /\ ln.text # ""

Note_parse(ln) ==
    [kind |-> ln.kind, start |-> ln.start, duration |-> ln.duration,
     pitch |-> ln.pitch, text |-> ln.text]

\* _parse_line_break: a "-" line is its beat values and what follows them on
\* the line (next_line, <<>> for None).  The regex needs one beat value at
\* least; two make a pair.
break_MutPushesBack(ln) ==
    [ok |-> ln.beats # <<>>, line_break |-> ln.beats, next_line |-> <<ln>>]

break_MutFirstBeatOnly(ln) ==
    [ok |-> ln.beats # <<>>,
     line_break |-> IF ln.beats = <<>> THEN <<>> ELSE <<ln.beats[1]>>,
     next_line |-> ln.next]

_parse_line_break(ln) ==
    [ok |-> ln.beats # <<>>, line_break |-> ln.beats, next_line |-> ln.next]

\* Line.parse: consumes lines up to a line break, "E", "P2" or the end.
RECURSIVE Line_parse(_, _, _)
Line_parse(lines, notes, log) ==
    IF lines = <<>>
    THEN [line |-> [notes |-> notes, line_break |-> <<>>], rest |-> <<>>,
          log |-> Append(log, "unterminated line")]
    ELSE IF Head(lines).t \in {"E", "P2"}
    THEN [line |-> [notes |-> notes, line_break |-> <<>>], rest |-> Tail(lines),
          log |-> log]
    ELSE IF Head(lines).t = "-"
    THEN IF ~_parse_line_break(Head(lines)).ok
         THEN Line_parse(Tail(lines), notes, Append(log, "invalid line break"))
         ELSE [line |-> [notes |-> notes,
                         line_break |-> _parse_line_break(Head(lines)).line_break],
               rest |-> _parse_line_break(Head(lines)).next_line \o Tail(lines),
               log |-> log]
    ELSE IF is_note(Head(lines))
    THEN Line_parse(Tail(lines), Append(notes, Note_parse(Head(lines))), log)
    ELSE Line_parse(Tail(lines), notes, Append(log, "invalid note"))

\* _player_lines, lines 155-156: a Line without notes is not kept.
keep_MutAlways(notes, line) == Append(notes, line)

keep_line(notes, line) == IF line.notes # <<>> THEN Append(notes, line) ELSE notes

\* The while loop of _player_lines.
RECURSIVE player_loop(_, _, _)
player_loop(lines, notes, log) ==
    IF lines = <<>> THEN [notes |-> notes, rest |-> <<>>, log |-> log]
    ELSE LET parsed == Line_parse(lines, <<>>, log)
         IN IF parsed.line.line_break = <<>>
            THEN [notes |-> keep_line(notes, parsed.line), rest |-> parsed.rest,
                  log |-> parsed.log]
            ELSE player_loop(parsed.rest, keep_line(notes, parsed.line), parsed.log)

\* _player_lines, lines 151-152: a leading "P..." line is skipped.
skip_player(lines) ==
    IF lines # <<>> /\ Head(lines).t \in {"P1", "P2"} THEN Tail(lines) ELSE lines

\* _player_lines, lines 160-162: notes[-1].line_break = None
last_MutKeepsBreak(notes) == notes

last_terminal(notes) ==
    [i \in 1..Len(notes) |->
        IF i = Len(notes) THEN [notes[i] EXCEPT !.line_break = <<>>]
        ELSE notes[i]]

\* _player_lines: skips a leading "P..." line, reads the lines of one player
\* and clears the break of the last one.
_player_lines(lines, log) ==
    LET read == player_loop(skip_player(lines), <<>>, log)
    IN [notes |-> last_terminal(read.notes), rest |-> read.rest, log |-> read.log]

\* PlayerNotes.parse (player_2 is None, here <<>>, when it has no lines).
PlayerNotes_parse(lines, log) ==
    LET first == _player_lines(lines, log)
        second == _player_lines(first.rest, first.log)
    IN [player_1 |-> first.notes, player_2 |-> second.notes,
        rest |-> second.rest, log |-> second.log]

NoKwargs == [headers |-> [key \in Fields |-> <<>>], unknown |-> <<>>]

\* SongTxt.try_parse, lines 320-321
trailing_warning(lines) ==
    IF lines # <<>> THEN <<"trailing text in song txt">> ELSE <<>>

\* SongTxt.try_parse: None (parsed = FALSE) without title or artist; log
\* holds the warnings given to the logger.
try_parse(lines) ==
    LET read == headers_loop(lines, NoKwargs, <<>>)
        body == PlayerNotes_parse(read.rest, read.log \o bpm_warning(read.kwargs))
    IN IF missing_title_or_artist(read.kwargs)
       THEN [parsed |-> FALSE, headers |-> DefaultHeaders, unknown |-> <<>>,
             notes |-> [player_1 |-> <<>>, player_2 |-> <<>>],
             log |-> read.log]
       ELSE [parsed |-> TRUE, headers |-> Headers_init(read.kwargs),
             unknown |-> read.kwargs.unknown,
             notes |-> [player_1 |-> body.player_1, player_2 |-> body.player_2],
             log |-> body.log \o trailing_warning(body.rest)]

\* The charts that are parsed and written: title and artist, at most
\* MaxOptional other attributes away from their default, unknown headers
\* (under the lower-case names the parser files them under) and the notes
\* of one or two players, every line with notes, every line but a player's
\* last with a break.
OptionalFields == Fields \ {"title", "artist"}

RECURSIVE FieldSets(_)
FieldSets(n) ==
    IF n = 0 THEN {{}}
    ELSE FieldSets(n - 1)
             \cup {set \cup {key} : set \in FieldSets(n - 1), key \in OptionalFields}

SampleValue(key) ==
    IF key \in FloatFields THEN <<120>>
    ELSE IF key \in IntFields THEN <<16>>
    ELSE <<key>>

SampleHeaders ==
    {[key \in Fields |-> IF key \in set THEN SampleValue(key)
                         ELSE DefaultHeaders[key]] : set \in FieldSets(MaxOptional)}

SampleUnknown ==
    LET version == [key |-> [name |-> "version", case |-> "lower"], value |-> "1.0.0"]
        author == [key |-> [name |-> "author", case |-> "lower"], value |-> "someone"]
    IN {<<>>, <<version>>, <<author>>, <<version, author>>}

SampleNotes ==
    LET la == [kind |-> ":", start |-> 0, duration |-> 2, pitch |-> -3, text |-> "la"]
        li == [kind |-> "*", start |-> 4, duration |-> 0, pitch |-> 7, text |-> " ~"]
        one == {<<[notes |-> <<la, li>>, line_break |-> <<>>]>>}
        two == {<<[notes |-> <<la>>, line_break |-> brk],
                  [notes |-> <<li>>, line_break |-> <<>>]>> : brk \in {<<8>>, <<8, 9>>}}
    IN [player_1 : one \cup two, player_2 : {<<>>} \cup two]

Charts == [headers : SampleHeaders, unknown : SampleUnknown, notes : SampleNotes]

NotParsed == [done |-> FALSE, result |-> try_parse(<<>>)]

ChartStart(charts) ==
    /\ chart \in charts
    /\ txt = <<>>
    /\ reparsed = NotParsed

ChartInit == ChartStart(Charts)

\* No chart is converted.
ChartIdle ==
    ChartStart({[headers |-> DefaultHeaders, unknown |-> <<>>,
                 notes |-> [player_1 |-> <<>>, player_2 |-> <<>>]]})

\* str(chart)
Serialize ==
    /\ ChartFrame
    /\ txt = <<>>
    /\ txt' = songtxt_str(chart)
    /\ UNCHANGED <<chart, reparsed>>

\* SongTxt.try_parse(txt)
Parse ==
    /\ ChartFrame
    /\ txt # <<>>
    /\ ~reparsed.done
    /\ reparsed' = [done |-> TRUE, result |-> try_parse(txt)]
    /\ UNCHANGED <<chart, txt>>

NextChart == Serialize \/ Parse

(***************************************************************************)
(* SongTxt.try_parse on the texts a caller can pass, one call of           *)
(* Headers.parse, _player_lines and Line.parse at a time, and str() of the *)
(* chart it returns.                                                       *)
(***************************************************************************)
HeaderLine(name, case, value) ==
    [t |-> "#", key |-> [name |-> name, case |-> case], value |-> value]

\* The header lines of the texts: title, artist and bpm, a title with an
\* empty value, a bpm that is no number, a header without ":", the encoding
\* and two headers the parser does not know, "#Version:1.0.0" and "#FOO:1".
HeaderLines ==
    {HeaderLine("title", "upper", Str("title")),
     HeaderLine("artist", "upper", Str("artist")),
     HeaderLine("title", "upper", Str("")),
     HeaderLine("bpm", "upper", str_int(120)),
     HeaderLine("bpm", "upper", Str("abc")),
     HeaderLine("nosep", "upper", NoValue),
     HeaderLine("encoding", "upper", Str("CP1252")),
     HeaderLine("version", "mixed", Str("1.0.0")),
     HeaderLine("foo", "upper", Str("1"))}

NoteLine(start, text) ==
    [t |-> "note", kind |-> ":", start |-> start, duration |-> 2, pitch |-> -3,
     text |-> text]

\* The lines of the body: ": 0 2 -3 la", a note without text, "- 8",
\* "- 8 9: 4 2 -3 li" (a line break with the next note on the same line),
\* "-" without a beat, "P2" and "E".
Records ==
    {NoteLine(0, "la"),
     NoteLine(4, ""),
     [t |-> "-", beats |-> <<8>>, next |-> <<>>],
     [t |-> "-", beats |-> <<8, 9>>, next |-> <<NoteLine(4, "li")>>],
     [t |-> "-", beats |-> <<>>, next |-> <<>>],
     [t |-> "P2"],
     [t |-> "E"]}

GoodHeader ==
    <<HeaderLine("title", "upper", Str("title")),
      HeaderLine("artist", "upper", Str("artist")),
      HeaderLine("bpm", "upper", str_int(120))>>

GoodBody == <<NoteLine(0, "la"), [t |-> "E"]>>

\* The texts: every header section of up to MaxHeaderLines lines before a
\* sound body, and every body of up to MaxRecords lines after a sound header.
Inputs ==
    {section \o GoodBody : section \in Lists(HeaderLines, MaxHeaderLines)}
        \cup {GoodHeader \o body : body \in Lists(Records, MaxRecords)}

NoSong ==
    [parsed |-> FALSE, headers |-> DefaultHeaders, unknown |-> <<>>,
     notes |-> [player_1 |-> <<>>, player_2 |-> <<>>]]

ParseStart(texts) ==
    /\ input \in texts
    /\ stream = input
    /\ tstage = "headers"
    /\ song = NoSong
    /\ plines = <<>>
    /\ cur = <<>>
    /\ warned = <<>>
    /\ output = <<>>

ParseInit == ParseStart(Inputs)

\* No text is parsed.
ParseIdle == ParseStart({<<>>})

\* try_parse, line 315: Headers.parse.  A NotesParseError makes try_parse
\* return None.
Headers_parse ==
    /\ ParseFrame
    /\ tstage = "headers"
    /\ LET read == headers_loop(stream, NoKwargs, <<>>)
       IN /\ stream' = read.rest
          /\ IF missing_title_or_artist(read.kwargs)
             THEN /\ tstage' = "returned"
                  /\ warned' = read.log
                  /\ UNCHANGED song
             ELSE /\ tstage' = "player_1"
                  /\ warned' = read.log \o bpm_warning(read.kwargs)
                  /\ song' = [song EXCEPT !.headers = Headers_init(read.kwargs),
                                          !.unknown = read.kwargs.unknown]
    /\ UNCHANGED <<input, plines, cur, output>>

PlayerStages == {"player_1", "player_2"}
LineStages == {"lines_1", "lines_2"}
EndStages == {"end_1", "end_2"}

\* The stage of the same player's loop, and of its end.
Loop(stage) == IF stage \in {"player_1", "lines_1"} THEN "lines_1" ELSE "lines_2"
End(stage) == IF stage = "lines_1" THEN "end_1" ELSE "end_2"

\* _player_lines, lines 150-152
PlayerStart ==
    /\ ParseFrame
    /\ tstage \in PlayerStages
    /\ stream' = skip_player(stream)
    /\ plines' = <<>>
    /\ tstage' = Loop(tstage)
    /\ UNCHANGED <<input, song, cur, warned, output>>

\* _player_lines, lines 153-159: one turn of the loop, one Line.parse.
LineParse ==
    /\ ParseFrame
    /\ tstage \in LineStages
    /\ stream # <<>>
    /\ LET parsed == Line_parse(stream, <<>>, warned)
       IN /\ cur' = <<parsed.line>>
          /\ plines' = keep_line(plines, parsed.line)
          /\ stream' = parsed.rest
          /\ warned' = parsed.log
          /\ tstage' = IF parsed.line.line_break = <<>> THEN End(tstage)
                       ELSE tstage
    /\ UNCHANGED <<input, song, output>>

\* _player_lines, line 153: the loop ends because no line is left.
LoopExit ==
    /\ ParseFrame
    /\ tstage \in LineStages
    /\ stream = <<>>
    /\ tstage' = End(tstage)
    /\ UNCHANGED <<input, stream, song, plines, cur, warned, output>>

\* _player_lines, lines 160-163, and the assignment in PlayerNotes.parse.
PlayerEnd ==
    /\ ParseFrame
    /\ tstage \in EndStages
    /\ IF tstage = "end_1"
       THEN /\ song' = [song EXCEPT !.notes.player_1 = last_terminal(plines)]
            /\ tstage' = "player_2"
       ELSE /\ song' = [song EXCEPT !.notes.player_2 = last_terminal(plines)]
            /\ tstage' = "finish"
    /\ UNCHANGED <<input, stream, plines, cur, warned, output>>

\* try_parse, lines 320-322
Finish ==
    /\ ParseFrame
    /\ tstage = "finish"
    /\ warned' = warned \o trailing_warning(stream)
    /\ song' = [song EXCEPT !.parsed = TRUE]
    /\ tstage' = "returned"
    /\ UNCHANGED <<input, stream, plines, cur, output>>

\* str() of the chart try_parse returned
Str_song ==
    /\ ParseFrame
    /\ tstage = "returned"
    /\ song.parsed
    /\ output = <<>>
    /\ output' = songtxt_str(song)
    /\ UNCHANGED <<input, stream, tstage, song, plines, cur, warned>>

NextParse ==
    \/ Headers_parse
    \/ PlayerStart
    \/ LineParse
    \/ LoopExit
    \/ PlayerEnd
    \/ Finish
    \/ Str_song


(***************************************************************************)
(* The specifications: one per subsystem.                                  *)
(***************************************************************************)
InitDb == DbInit /\ DirIdle /\ PipeIdle /\ JobsIdle /\ DuetIdle /\ SearchIdle /\ ChartIdle
             /\ RowsIdle /\ ParseIdle

SpecDb == InitDb /\ [][NextDb]_vars

\* The scheduler is fair: a worker that holds the guard goes on, a body comes
\* to its end unless it has stopped in a call of its own, and a worker that
\* waits for the guard gets it if the guard is free again and again.
FairSpecDb ==
    /\ InitDb
    /\ [][NextDbWait]_vars
    /\ \A w \in Workers :
           /\ WF_vars(Proceed(w))
           /\ WF_vars(BodyEnds(w))
           /\ SF_vars(GuardEnter(w))

InitDir == DirInit /\ DbIdle /\ PipeIdle /\ JobsIdle /\ DuetIdle /\ SearchIdle /\ ChartIdle
             /\ RowsIdle /\ ParseIdle

SpecDir == InitDir /\ [][NextDir]_vars

InitPipe == PipeInit /\ DbIdle /\ DirIdle /\ JobsIdle /\ DuetIdle /\ SearchIdle /\ ChartIdle
             /\ RowsIdle /\ ParseIdle

SpecPipe == InitPipe /\ [][NextPipe]_vars

InitSearch == SearchInit /\ DbIdle /\ DirIdle /\ PipeIdle /\ JobsIdle /\ DuetIdle /\ ChartIdle
             /\ RowsIdle /\ ParseIdle

SpecSearch == InitSearch /\ [][NextSearch]_vars

InitChart == ChartInit /\ DbIdle /\ DirIdle /\ PipeIdle /\ JobsIdle /\ DuetIdle /\ SearchIdle
             /\ RowsIdle /\ ParseIdle

SpecChart == InitChart /\ [][NextChart]_vars

InitDirSeq ==
    DirSeqInit /\ DbIdle /\ PipeIdle /\ JobsIdle /\ DuetIdle /\ SearchIdle /\ ChartIdle
        /\ RowsIdle /\ ParseIdle

SpecDirSeq == InitDirSeq /\ [][NextDirSeq]_vars

InitJobs ==
    JobsInit /\ DbIdle /\ DirIdle /\ PipeIdle /\ DuetIdle /\ SearchIdle /\ ChartIdle
        /\ RowsIdle /\ ParseIdle

SpecJobs == InitJobs /\ [][NextJobs]_vars

InitDuet ==
    DuetInit /\ DbIdle /\ DirIdle /\ PipeIdle /\ JobsIdle /\ SearchIdle /\ ChartIdle
        /\ RowsIdle /\ ParseIdle

SpecDuet == InitDuet /\ [][NextDuet]_vars

\* run() is executed by a thread that is not stopped: a step of the scan that
\* can be taken is taken.
FairSpecDuet == SpecDuet /\ WF_vars(NextDuet)

InitRows ==
    RowsInit /\ DbIdle /\ DirIdle /\ PipeIdle /\ JobsIdle /\ DuetIdle /\ SearchIdle
        /\ ChartIdle /\ ParseIdle

SpecRows == InitRows /\ [][NextRows]_vars

InitParse ==
    ParseInit /\ DbIdle /\ RowsIdle /\ DirIdle /\ PipeIdle /\ JobsIdle /\ DuetIdle
        /\ SearchIdle /\ ChartIdle

SpecParse == InitParse /\ [][NextParse]_vars

\* try_parse runs on one thread that is not stopped: a step that can be taken
\* is taken.
FairSpecParse == SpecParse /\ WF_vars(NextParse)

(***************************************************************************)
(* Claims about the SyncStore, checked under SpecDb.                       *)
(***************************************************************************)
\* Worker w is between the BEGIN and the commit/rollback of its transaction.
InTransaction(w) ==
    /\ pc[w] \in {"tx_body", "tx_commit", "tx_except"}
    /\ begun[w] # NoSnapshot

\* C1: at most one worker at a time is between the BEGIN and the
\* commit/rollback of its transaction: the bodies of two transactions never
\* overlap.
C1_TransactionBodiesNeverOverlap ==
    \A w, v \in Workers : (InTransaction(w) /\ InTransaction(v)) => w = v

\* One worker is inside its transaction while another worker, which ran a
\* transaction of its own before, is outside of it.
C1_Witness ==
    \E w, v \in Workers :
        /\ w # v
        /\ InTransaction(w)
        /\ pc[w] = "tx_body"
        /\ work # begun[w]
        /\ call[v] = "transaction"
        /\ result[v] = "ok"
        /\ pc[v] = "idle"

\* C7 (as claimed): the step that ends a transaction whose body raised rolls
\* back, so that the store holds what it held at BEGIN, and leaves an
\* exception in flight; the step that ends a transaction whose body
\* completed commits everything the connection holds, without an error;
\* and the call returns with the guard released.
C7_TransactionAtomic ==
    [][\A w \in Workers :
        /\ (TxRollback(w) /\ InTransaction(w)) =>
              /\ store'.usdb_song = begun[w]
              /\ work' = begun[w]
              /\ exc'[w] # "none"
        /\ TxCommit(w) =>
              /\ store'.usdb_song = work
              /\ work' = work
              /\ exc'[w] = "none"
        /\ (LockExit(w) /\ call[w] = "transaction") => lock' = NoWorker
      ]_vars

\* C8 (as claimed): a write statement a worker issues outside transaction()
\* is never executed while another worker is between its BEGIN and its
\* commit/rollback.
C8_NoWriteInsideForeignTransaction ==
    [][\A w \in Workers : \A st \in Statements :
        (Statement(w, st) /\ IsWrite(st) /\ execute_error = "none") =>
            ~(\E v \in Workers \ {w} : InTransaction(v))
      ]_vars

\* C9: while _DbState._connection is None every store function, and every
\* statement of transaction(), raises the not-connected DatabaseError and
\* leaves the stored data alone; transaction() then ends with that error
\* and with the guard free.
C9_NotConnectedFails ==
    [][\A w \in Workers :
        connection = "None" =>
          /\ \A st \in Statements :
                (Statement(w, st) \/ TxBodyStatement(w, st)) =>
                    /\ (result'[w] = "DatabaseError" \/ exc'[w] = "DatabaseError")
                    /\ result'[w] # "ok"
                    /\ store' = store
                    /\ work' = work
          /\ (TxBegin(w) \/ TxRollback(w) \/ TxCommit(w)) =>
                /\ exc'[w] = "DatabaseError"
                /\ store' = store
                /\ work' = work
          /\ (LockExit(w) /\ call[w] = "transaction"
                /\ exc[w] = "DatabaseError") =>
                /\ result'[w] = "DatabaseError"
                /\ lock' = NoWorker
                /\ store' = store
      ]_vars

\* transaction() was entered without a connection and has failed with the
\* not-connected error.
C9_Witness ==
    \E w \in Workers :
        /\ connection = "None"
        /\ call[w] = "transaction"
        /\ pc[w] = "idle"
        /\ result[w] = "DatabaseError"
        /\ begun[w] = NoSnapshot
        /\ lock = NoWorker

\* The file has a meta table that is not stamped with SCHEMA_VERSION.
Mismatched(file) == file.schema /\ file.meta # {SCHEMA_VERSION}

\* C10: connect() on a store whose meta table exists but holds another
\* version, or no row, raises UnknownSchemaError and writes nothing.
C10_SchemaMismatchFails ==
    [][\A w \in Workers :
        /\ (Connect(w) /\ Mismatched(store)) =>
              /\ exc'[w] = "UnknownSchemaError"
              /\ store' = store
        /\ (LockExit(w) /\ call[w] = "connect" /\ Mismatched(store)) =>
              /\ result'[w] = "UnknownSchemaError"
              /\ store' = store
      ]_vars

\* connect() has failed with UnknownSchemaError on a store of another
\* version.
C10_Witness ==
    \E w \in Workers :
        /\ call[w] = "connect"
        /\ pc[w] = "idle"
        /\ result[w] = "UnknownSchemaError"
        /\ Mismatched(store)

\* The store carries the stamp of this version.
Stamped(file) == file.schema /\ file.meta = {SCHEMA_VERSION}

\* C28: connect() on a store without a meta table creates the schema and
\* leaves exactly one version row, SCHEMA_VERSION, and does not raise; no
\* store function removes or changes that stamp; and connect() on a store
\* with that stamp (after close(), or at any other time) does not raise and
\* leaves the stamp and the stored rows as they are.
C28_FirstConnectStampsAndReconnectKeeps ==
    /\ [][\A w \in Workers :
            (pc[w] = "connect_open" /\ ~store.schema /\ pc'[w] = "lock_exit") =>
                (Stamped(store') /\ Cardinality(store'.meta) = 1
                    /\ exc'[w] = "none")]_vars
    /\ [][Stamped(store) => Stamped(store')]_vars
    /\ [][\A w \in Workers :
            (pc[w] = "connect_open" /\ Stamped(store) /\ pc'[w] = "lock_exit") =>
                (exc'[w] = "none" /\ store' = store)]_vars

\* A worker has closed the connection and the other one has connected again
\* to the store, which holds the stamp and the rows written before.
C28_Witness ==
    \E w, u \in Workers :
        /\ call[w] = "close" /\ result[w] = "ok"
        /\ call[u] = "connect" /\ result[u] = "ok"
        /\ connection = "Open"
        /\ Stamped(store)
        /\ store.usdb_song # {}

\* C30 (as claimed): once a connect() has raised UnknownSchemaError on the
\* store, every store function called afterwards raises the not-connected
\* DatabaseError, whichever worker calls it.
C30_FailedConnectLeavesDisconnected ==
    [][\A w, u \in Workers, st \in Statements :
          (/\ call[w] = "connect"
           /\ result[w] = "UnknownSchemaError"
           /\ \E v \in store.meta : v # SCHEMA_VERSION
           /\ Statement(u, st)) => result'[u] = "DatabaseError"]_vars

\* A body has called transaction() or connect().
Reentered == \E u \in Workers : pc[u] \in ReenterStages

C35_CloseWaitsForTransaction ==
    [][\A w \in Workers :
          /\ (\E u \in Workers \ {w} : InTransaction(u))
                 => ~(CloseConnection(w) /\ connection' = "Closed")
          /\ ((TxCommit(w) \/ TxRollback(w)) /\ InTransaction(w))
                 => connection = "Open"
      ]_vars

(***************************************************************************)
(* Claims about the rows of the store, checked under SpecRows.             *)
(***************************************************************************)
\* C29 (as claimed): whatever store functions have been called, every row
\* of resource_file refers to a row of sync_meta and every row of sync_meta
\* to a row of usdb_song: the deletes take the referencing rows with them.
C29_ReferencesResolve ==
    /\ \A r \in resource_file :
           \E m \in sync_meta : m.sync_meta_id = r.sync_meta_id
    /\ \A m \in sync_meta : m.song_id \in usdb_song

(***************************************************************************)
(* Claims about the directory registry, checked under SpecDir.             *)
(***************************************************************************)
\* C2 (as claimed): two next_unique_directory calls with the same base path
\* that ran concurrently, with no registry entry expiring meanwhile, return
\* distinct paths.
C2_ConcurrentAllocationsDistinct ==
    \A w, v \in Workers :
        (/\ w # v
         /\ v \in overlap[w]
         /\ dpath[w] = dpath[v]
         /\ returned[w] # NoPath
         /\ returned[v] # NoPath
         /\ ~Expired(returned[w], clock)) => returned[w] # returned[v]

(***************************************************************************)
(* Claims about next_unique_directory called by one caller at a time,      *)
(* checked under SpecDirSeq.                                               *)
(***************************************************************************)
\* The n-th name tried for a path: the path itself, then "name (n)".
Candidate(path, n) == IF n = 0 THEN path ELSE with_name(path, n)

\* A registry holds a live entry of the path at the time `now`.
Reserved(registry, now, path) ==
    /\ registry[path] > 0
    /\ now - registry[path] <= CACHE_LIFETIME

Free(registry, now, path) == ~Reserved(registry, now, path) /\ path \notin disk

\* The call of worker w returns with this step; no other call ran during it.
Returns(w) == dpc[w] = "exists" /\ dpc'[w] = "idle" /\ overlap[w] = {}

\* C17: a call during which the clock did not advance returns the first of
\* path, "name (1)", "name (2)", ... that was neither reserved by a live
\* entry of the registry as the call found it nor on disk (so the path
\* itself when that is free), and the registry then holds the returned path
\* with the current time.
C17_ReturnsFirstFreeName ==
    [][\A w \in Workers :
          (Returns(w) /\ before.clock = clock) =>
              \E n \in 0..MaxSuffix :
                  /\ returned'[w] = Candidate(dpath[w], n)
                  /\ Free(before.cache, clock, Candidate(dpath[w], n))
                  /\ \A m \in 0..(n - 1) :
                         ~Free(before.cache, clock, Candidate(dpath[w], m))
                  /\ cache'[returned'[w]] = clock'
      ]_vars

\* A call returned a name with a suffix above 1: the path was reserved by a
\* live entry, "name (1)" was on disk, and the registry holds the returned
\* name with the current time.
C17_Witness ==
    \E w \in Workers, n \in 2..MaxSuffix :
        /\ dpc[w] = "idle"
        /\ returned[w] = Candidate(dpath[w], n)
        /\ before.clock = clock
        /\ Reserved(before.cache, clock, dpath[w])
        /\ dpath[w] \notin disk
        /\ Candidate(dpath[w], 1) \in disk
        /\ cache[returned[w]] = clock

\* C18: a call for a path that is not on disk and whose entry was older
\* than CACHE_LIFETIME when the call began returns the path itself; a call
\* for a path whose entry is not older than CACHE_LIFETIME when the call
\* returns is given another name, and the entry keeps its time.
C18_EntryBlocksWhileLive ==
    [][\A w \in Workers :
          Returns(w) =>
              /\ (/\ before.cache[dpath[w]] > 0
                  /\ before.clock - before.cache[dpath[w]] > CACHE_LIFETIME
                  /\ dpath[w] \notin disk) => returned'[w] = dpath[w]
              /\ Reserved(before.cache, clock, dpath[w]) =>
                     /\ returned'[w] # dpath[w]
                     /\ cache'[dpath[w]] = before.cache[dpath[w]]
      ]_vars

\* A path was handed out, a later request for it was refused and given
\* "name (1)", and after the lifetime of the first entry a request for the
\* path returned the path itself again.
C18_Witness ==
    \E w \in Workers :
        /\ dpc[w] = "idle"
        /\ dpath[w] \in BasePaths
        /\ returned[w] = dpath[w]
        /\ before.cache[dpath[w]] > 0
        /\ before.clock - before.cache[dpath[w]] > CACHE_LIFETIME
        /\ cache[Candidate(dpath[w], 1)] >= before.cache[dpath[w]]
        /\ cache[Candidate(dpath[w], 1)] < before.clock

\* No entry of a path returned so far is older than CACHE_LIFETIME.
NoneExpired == \A h \in handed : clock - h.time <= CACHE_LIFETIME

\* C32: as long as no entry of a returned path has expired, a call that did
\* not overlap with another returns a path that no earlier call returned
\* and that is not on disk.
C32_SequentialAllocationsDistinct ==
    [][\A w \in Workers :
          (Returns(w) /\ NoneExpired) =>
              /\ \A h \in handed : returned'[w] # h.path
              /\ returned'[w] \notin disk
      ]_vars

\* Three calls have returned three paths, the last one while the entries of
\* the first two were live; the path asked for last was on disk.
C32_Witness ==
    /\ Cardinality(handed) = 3
    /\ NoneExpired
    /\ dpc[Caller] = "idle"
    /\ dpath[Caller] \in disk
    /\ returned[Caller] \notin disk

\* C39 (as claimed): a call changes the registry in one place only, the
\* entry of the path it returns.
C39_RegistryGainsOnlyReturnedPath ==
    [][\A w \in Workers :
          Returns(w) =>
              \A path \in Paths :
                  path # returned'[w] => cache'[path] = before.cache[path]
      ]_vars

(***************************************************************************)
(* Claims about the download pipeline, checked under SpecPipe.             *)
(***************************************************************************)
\* C3: a run that finds the song's snapshot equal to the text it fetched
\* (a run after an earlier run, the remote text unchanged) has fetched the
\* metadata and ends at the comparison: no resource stage, no chart write,
\* the snapshot and every other file of the song as they were.
C3_UnchangedTextEndsRun ==
    [][(rpc = "diff" /\ folders[pathname] = File(songtext)) =>
          /\ rpc' = "idle"
          /\ ended' = "identical"
          /\ outcome' = NoOutcome
          /\ folders' = folders
          /\ written' = {}
      ]_vars

\* A run has ended as identical: an earlier run stored the snapshot, the
\* remote text is still that text, and this run wrote nothing.
C3_Witness ==
    /\ rpc = "idle"
    /\ ended = "identical"
    /\ remote.exists
    /\ folders[generate_dirname(remote.text)] = File(remote.text)
    /\ written = {}

\* C4 (as claimed): a resource stage that failed or was skipped leaves
\* every header as it was before the stage.
C4_HeadersChangeOnlyOnSuccess ==
    [][\A stage \in ResourceStages :
          (rpc = stage /\ outcome'[stage] \in {"failed", "skipped"}) =>
              header' = header
      ]_vars

\* The stages of a run in the order of the code.
StageOrder == <<"fetch", "diff", "audio", "video", "cover", "background",
                "write">>
Position(stage) == CHOOSE i \in 1..Len(StageOrder) : StageOrder[i] = stage

\* C11: a run starts with the metadata fetch and goes from a stage only to
\* the stage that follows it in the order fetch, diff, audio, video, cover,
\* background, write chart, or ends; while a stage runs, exactly the
\* resource stages before it have an outcome (completed, failed or
\* skipped), so no stage is started early and none runs twice in a run.
C11_StagesInStrictOrder ==
    /\ [][rpc' # rpc =>
            \/ rpc' = "idle"
            \/ rpc = "idle" /\ rpc' = StageOrder[1]
            \/ /\ rpc # "idle"
               /\ Position(rpc') = Position(rpc) + 1
         ]_vars
    /\ [](rpc # "idle" =>
            \A stage \in ResourceStages :
                IF Position(stage) < Position(rpc)
                THEN outcome[stage] \in {"ok", "failed", "skipped"}
                ELSE outcome[stage] = "none")

\* A run went through every stage: one stage completed, one failed, one was
\* skipped, and the chart was written.
C11_Witness ==
    /\ rpc = "idle"
    /\ ended = "completed"
    /\ "txt" \in written
    /\ \A stage \in ResourceStages : outcome[stage] # "none"
    /\ \A how \in {"ok", "failed", "skipped"} :
           \E stage \in ResourceStages : outcome[stage] = how

\* C12 (as claimed): a run that is in a resource stage and is not shut
\* down goes on to the next resource stage or to the chart write, whatever
\* the outcomes of the resource stages were.
C12_EveryRunReachesWriteChart ==
    [][(rpc \in ResourceStages) =>
          \/ rpc' \in AfterDiff
          \/ ended' = "aborted"
      ]_vars

\* C13: when the catalog reports that the song does not exist, the run ends
\* at the metadata fetch: the text is not fetched, no folder or file is
\* created or changed, and no later stage has run.
C13_RemovedSongEndsRun ==
    [][(rpc = "fetch" /\ ~remote.exists) =>
          /\ rpc' = "idle"
          /\ ended' = "deleted"
          /\ songtext' = NoText
          /\ folders' = folders
          /\ written' = {}
          /\ outcome' = NoOutcome
      ]_vars

\* A run ended because the song was removed after an earlier run had stored
\* its snapshot; the snapshot is still there and the run wrote nothing.
C13_Witness ==
    /\ rpc = "idle"
    /\ ended = "deleted"
    /\ ~remote.exists
    /\ written = {}
    /\ \E d \in DirNames : folders[d] # NoFile

\* C14: in every stage after the diff stage the snapshot of the run's
\* folder is the text the run fetched, and no step of these stages, however
\* it ends, changes a snapshot.
C14_SnapshotStoredBeforeAudio ==
    /\ [](rpc \in AfterDiff => folders[pathname] = File(songtext))
    /\ [][(rpc \in AfterDiff) => folders' = folders]_vars

\* A run stored the snapshot of the text it fetched, then its audio and
\* video downloads failed; the snapshot is the remote text.
C14_Witness ==
    /\ rpc = "cover"
    /\ "usdb" \in written
    /\ outcome["audio"] = "failed"
    /\ outcome["video"] = "failed"
    /\ folders[pathname] = File(remote.text)

\* C15 (as claimed): the run after a run that was shut down between its
\* diff stage and its chart write goes on from its own diff stage to the
\* resource stages instead of ending as already up to date.
C15_RunAfterAbortReevaluates ==
    [][(rpc = "diff" /\ ended = "aborted") => rpc' = "audio"]_vars

\* C26: the background stage calls the fetcher exactly when the background
\* download is enabled and the policy is "always", or is "only if no video"
\* and the video stage of this run did not end with a video (it failed, found
\* no reference or was disabled).
C26_BackgroundGatedByPolicy ==
    [][\A enabled, ok \in BOOLEAN, when \in BackgroundPolicies :
          Background(enabled, when, ok) =>
              ((outcome'["background"] \in {"ok", "failed"})
                  <=> /\ enabled
                      /\ \/ when = "always"
                         \/ when = "only if no video" /\ outcome["video"] # "ok")]_vars

\* A run whose video stage failed and whose background stage called the
\* fetcher, and the fetcher failed too.
C26_Witness ==
    /\ rpc = "write"
    /\ outcome["video"] = "failed"
    /\ outcome["background"] = "failed"

(***************************************************************************)
(* Claims about runs of different songs, checked under SpecJobs.           *)
(***************************************************************************)
\* C16: the runs of two different songs never create or write into the
\* same folder, whatever folder names their texts give, and so also when
\* the two names are the same.
C16_RunsUseDistinctFolders ==
    \A i, j \in SongIds : i # j => touched[i] \cap touched[j] = {}

\* The runs of two songs are writing their files at the same time, below
\* folders of the same name.
C16_Witness ==
    \E i, j \in SongIds :
        /\ i # j
        /\ jobs[i].at = "files"
        /\ jobs[j].at = "files"
        /\ jobs[i].pathname.dirname = jobs[j].pathname.dirname
        /\ jobs[i].pathname \in touched[i]
        /\ jobs[j].pathname \in touched[j]

(***************************************************************************)
(* Claims about the duet reassignment, checked under SpecDuet.             *)
(***************************************************************************)
IsNote(line) == line.tag \in NotePrefixes
IsMarker(line) == line.tag \in {"P1", "P2"}

\* The notes of a body before its i-th line, and the last of them.
EarlierNotes(body, i) == {j \in 1..(i - 1) : IsNote(body[j])}
Latest(positions) == CHOOSE j \in positions : \A k \in positions : k <= j

\* The i-th line is a note below the highest start beat of the notes before it.
BelowMaximum(body, i) ==
    /\ IsNote(body[i])
    /\ \E j \in EarlierNotes(body, i) : body[i].start < body[j].start

\* The i-th line is a note below the start beat of the note before it; the
\* first note is measured against beat 0.
BelowPrevious(body, i) ==
    /\ IsNote(body[i])
    /\ body[i].start < (IF EarlierNotes(body, i) = {} THEN 0
                        ELSE body[Latest(EarlierNotes(body, i))].start)

\* The body from its i-th line on, a player-2 marker put before the lines
\* at the given positions.
RECURSIVE WithMarkers(_, _, _)
WithMarkers(body, positions, i) ==
    IF i > Len(body) THEN <<>>
    ELSE (IF i \in positions THEN <<P2>> ELSE <<>>)
             \o <<body[i]>> \o WithMarkers(body, positions, i + 1)

\* C19 (as claimed): the reassigned list is the flat list with a player-1
\* marker in front and a player-2 marker immediately before every note
\* whose start beat is less than the maximum start beat of the notes before
\* it, and no other marker.
C19_MarkerBeforeNotesBelowMaximum ==
    dstage = "done" =>
        dnotes = <<P1>> \o WithMarkers(flat,
                     {i \in 1..Len(flat) : BelowMaximum(flat, i)}, 1)

\* C19 (amended): the reassigned list is the flat list with a player-1
\* marker in front and a player-2 marker immediately before every note
\* whose start beat is less than the start beat of the note before it (less
\* than 0 for the first note), and no other marker.
C19_MarkerBeforeNotesBelowPrevious ==
    dstage = "done" =>
        dnotes = <<P1>> \o WithMarkers(flat,
                     {i \in 1..Len(flat) : BelowPrevious(flat, i)}, 1)

\* A list was reassigned in which a note is below the maximum of the notes
\* before it but not below the note before it, after a note that is below
\* the note before it: the list has a player-2 marker before the one and
\* none before the other.
C19_Witness ==
    /\ dstage = "done"
    /\ \E i, j \in 1..Len(flat) :
           /\ i < j
           /\ BelowPrevious(flat, i)
           /\ BelowMaximum(flat, j)
           /\ ~BelowPrevious(flat, j)
    /\ \E k \in 1..Len(dnotes) : dnotes[k] = P2

\* A note follows a note of a higher start beat.
Regression(body, i) == BelowPrevious(body, i) /\ EarlierNotes(body, i) # {}

\* C20 (as claimed): after the reassignment the lines other than the
\* markers are the flat list in its order; two notes with no marker between
\* them are in non-decreasing order of start beat; and a list with a single
\* regression has exactly one player-2 marker, immediately before the
\* regressing note.
C20_SegmentsNonDecreasing ==
    dstage = "done" =>
        /\ SelectSeq(dnotes, LAMBDA line : ~IsMarker(line)) = flat
        /\ \A i, j \in 1..Len(dnotes) :
               (/\ i < j
                /\ IsNote(dnotes[i])
                /\ IsNote(dnotes[j])
                /\ \A k \in i..j : ~IsMarker(dnotes[k]))
                   => dnotes[i].start <= dnotes[j].start
        /\ \A i \in 1..Len(flat) :
               (/\ Regression(flat, i)
                /\ \A j \in 1..Len(flat) : Regression(flat, j) => j = i)
                   => dnotes = <<P1>> \o WithMarkers(flat, {i}, 1)

\* Every player-2 marker of the list stands immediately before a note and
\* not immediately after another player-2 marker.
OneMarkerPerNote(list) ==
    \A k \in 1..Len(list) :
        list[k] = P2 =>
            /\ k < Len(list)
            /\ IsNote(list[k + 1])
            /\ k > 1 => list[k - 1] # P2

\* C38: the scan ends for every flat list; at every moment of it the lines
\* of the list other than the markers are the flat list in its order, and
\* every player-2 marker stands before a note of its own.
C38_ScanTerminatesAndKeepsNotes ==
    /\ <>(dstage = "done")
    /\ [](/\ SelectSeq(dnotes, LAMBDA line : ~IsMarker(line)) = flat
          /\ OneMarkerPerNote(dnotes))

\* The scan has ended for a list with two notes below the note before them:
\* two player-2 markers were inserted into the list while it was iterated.
C38_Witness ==
    /\ dstage = "done"
    /\ Cardinality({k \in 1..Len(dnotes) : dnotes[k] = P2}) = 2
    /\ idx = Len(flat) + 3

(***************************************************************************)
(* Claims about SearchBuilder, checked under SpecSearch.                   *)
(***************************************************************************)
\* A list filter is satisfied by membership; an empty list is no filter.
InList(value, list) == list = <<>> \/ \E i \in 1..Len(list) : list[i] = value

\* The views filter is satisfied by lying in at least one of the ranges.
InRanges(value, ranges) ==
    \/ ranges = <<>>
    \/ \E i \in 1..Len(ranges) :
          /\ ranges[i][1] <= value
          /\ ranges[i][2] = None \/ value < ranges[i][2]

\* The row satisfies every filter the builder specifies.
Satisfies(row, b) ==
    /\ InList(row.artist, b.artists)
    /\ InList(row.title, b.titles)
    /\ InList(row.edition, b.editions)
    /\ InList(row.language, b.languages)
    /\ b.golden_notes = <<>> \/ b.golden_notes = <<row.golden_notes>>
    /\ InList(row.rating, b.ratings)
    /\ InRanges(row.views, b.views)
    /\ b.downloaded = <<>> \/ b.downloaded = <<row.sync_meta_id # "NULL">>

\* C5 (as claimed): for a builder without text, the statement returns
\* exactly the rows that satisfy all of its filters at once, and all rows
\* when no filter is set.
C5_FiltersAreConjoined ==
    (found # NotSearched /\ _fts5_phrases(search.text) = <<>>) =>
        found.rows = {row \in Table : Satisfies(row, search)}

\* The builder filters by views and by nothing else.
OnlyViews(b) ==
    /\ b.views # <<>>
    /\ _fts5_phrases(b.text) = <<>>
    /\ b.artists = <<>> /\ b.titles = <<>> /\ b.editions = <<>>
    /\ b.languages = <<>> /\ b.ratings = <<>>
    /\ b.golden_notes = <<>> /\ b.downloaded = <<>>

\* A range (min, max) matches min <= views < max, a range (min, None)
\* matches views >= min.
RangeMatches(range, views) ==
    IF range[2] = None THEN views >= range[1]
    ELSE range[1] <= views /\ views < range[2]

\* C27: when views is the only filter, the statement returns exactly the rows
\* whose views lie in at least one of the given ranges, a range being
\* inclusive below and exclusive above, or open-ended.
C27_ViewsRangesAreDisjoined ==
    (found # NotSearched /\ OnlyViews(search)) =>
        found.rows = {row \in Table :
                         \E i \in 1..Len(search.views) :
                             RangeMatches(search.views[i], row.views)}

\* A search by a bounded and an open-ended range that returns the rows below
\* the first range's upper bound and those from the second's lower bound on,
\* and not the rows at the upper bound.
C27_Witness ==
    /\ found # NotSearched
    /\ OnlyViews(search)
    /\ search.views = <<<<0, 100>>, <<200, None>>>>
    /\ \E row \in found.rows : row.views = 99
    /\ \E row \in found.rows : row.views = 200
    /\ ~\E row \in found.rows : row.views = 100

\* The number of "?" in a clause.
RECURSIVE QuestionMarks(_)
QuestionMarks(where) ==
    IF where = <<>> THEN 0
    ELSE (CASE Head(where).kind = "IN" -> Head(where).n
            [] Head(where).kind \in {"MATCH", "=", ">=", "<"} -> 1
            [] OTHER -> 0)
         + QuestionMarks(Tail(where))

\* The attribute of the builder that a column is filtered by.
ListOf(b, attr) ==
    CASE attr = "artist" -> b.artists
      [] attr = "title" -> b.titles
      [] attr = "edition" -> b.editions
      [] attr = "language" -> b.languages
      [] attr = "rating" -> b.ratings

\* min and, unless it is None, max of each range, in the order of the ranges.
RECURSIVE RangeBounds(_)
RangeBounds(views) ==
    IF views = <<>> THEN <<>>
    ELSE (IF Head(views)[2] = None THEN <<Head(views)[1]>>
          ELSE <<Head(views)[1], Head(views)[2]>>)
         \o RangeBounds(Tail(views))

\* The number of values the list filters, golden_notes and views call for.
ListedValues(b) ==
    Len(b.artists) + Len(b.titles) + Len(b.editions) + Len(b.languages)
        + Len(b.golden_notes) + Len(b.ratings) + Len(RangeBounds(b.views))

\* C31: for the builder of a search, the WHERE clause has as many "?" as
\* parameters() yields values, and the value at the position of each "?" is
\* the one its comparison is about: the phrases first, then the artists,
\* titles, editions, languages, golden_notes, ratings, then min and max of
\* each views range; the clause has a MATCH exactly when parameters() yields
\* a value for the text, and the downloaded filter adds no "?".
C31_PlaceholdersMatchParameters ==
    (found # NotSearched) =>
        LET where == _where_clause(search)
            params == parameters(search)
            bound == bind(where, 1)
            ranges == {i \in 1..Len(bound) : bound[i].tok.kind \in {">=", "<"}}
        IN /\ QuestionMarks(where) = Len(params)
           /\ (\E i \in 1..Len(where) : where[i].kind = "MATCH")
                  <=> Len(params) = ListedValues(search) + 1
           /\ QuestionMarks(where)
                  = QuestionMarks(_where_clause([search EXCEPT !.downloaded = <<>>]))
           /\ \A i \in 1..Len(bound) :
                  LET tok == bound[i].tok
                      pos == bound[i].p
                  IN CASE tok.kind = "MATCH" ->
                              pos = 1 /\ params[1] = _fts5_phrases(search.text)
                       [] tok.kind = "IN" ->
                              SubSeq(params, pos, pos + tok.n - 1)
                                  = ListOf(search, tok.attr)
                       [] tok.kind = "=" -> params[pos] = search.golden_notes[1]
                       [] tok.kind \in {">=", "<"} ->
                              params[pos]
                                  = RangeBounds(search.views)
                                        [Cardinality({j \in ranges : j <= i})]
                       [] OTHER -> TRUE

\* A search whose builder has every filter: a text, two artists, golden_notes,
\* two ratings, a bounded and an open-ended range of views, and downloaded.
C31_Witness ==
    /\ found # NotSearched
    /\ search.text = <<"queen">>
    /\ Len(search.artists) = 2
    /\ search.titles # <<>>
    /\ search.golden_notes # <<>>
    /\ Len(search.ratings) = 2
    /\ search.views = <<<<0, 100>>, <<200, None>>>>
    /\ search.downloaded # <<>>
    /\ Len(parameters(search)) = 12

(***************************************************************************)
(* Claims about the chart format, checked under SpecChart.                 *)
(***************************************************************************)
\* Two dicts are equal when they hold the same items.
SameItems(a, b) ==
    {a[i] : i \in 1..Len(a)} = {b[i] : i \in 1..Len(b)}

\* C6 (as claimed): parsing the text written for a chart gives a chart
\* equal to it in every recognized header (encoding included), in the
\* unknown headers and in the notes.
C6_ParseOfStrIsIdentity ==
    reparsed.done =>
        /\ reparsed.result.parsed
        /\ reparsed.result.headers = chart.headers
        /\ SameItems(reparsed.result.unknown, chart.unknown)
        /\ reparsed.result.notes = chart.notes

(***************************************************************************)
(* Claims about try_parse and str() of its result, checked under SpecParse.*)
(***************************************************************************)
\* The header section of a text: its leading lines that start with "#".
LeadingHeaders(text) ==
    LET n == CHOOSE k \in 0..Len(text) :
                 /\ \A i \in 1..k : text[i].t = "#"
                 /\ k = Len(text) \/ text[k + 1].t # "#"
    IN SubSeq(text, 1, n)

\* The header line has a ":" and something after it.
HasValue(ln) == ln.value.form # "none" /\ ~(ln.value.form = "str" /\ ln.value.text = "")

\* The header section has a line of that name (in any case) with a value.
YieldsField(text, name) ==
    \E i \in 1..Len(LeadingHeaders(text)) :
        LeadingHeaders(text)[i].key.name = name /\ HasValue(LeadingHeaders(text)[i])

\* The messages of a log.
Messages(log) == {log[i] : i \in 1..Len(log)}

\* How often a message is in a log.
Count(log, message) == Cardinality({i \in 1..Len(log) : log[i] = message})

\* The text has the terminator "E".
Terminated(text) == \E i \in 1..Len(text) : text[i].t = "E"

\* C23 (as claimed): try_parse returns None exactly when the header section
\* has no title with a non-empty value or no artist with one; when it returns
\* a chart, a header line without ":", a bpm that is no number, a missing
\* bpm and a missing terminator have each been logged as a warning.
C23_OnlyMissingTitleOrArtistIsFatal ==
    (tstage = "returned") =>
        /\ song.parsed <=> (YieldsField(input, "title") /\ YieldsField(input, "artist"))
        /\ song.parsed =>
            LET section == LeadingHeaders(input)
            IN /\ (\E i \in 1..Len(section) : section[i].value.form = "none")
                      => "header without value" \in Messages(warned)
               /\ (\E i \in 1..Len(section) :
                      /\ section[i].key.name = "bpm"
                      /\ section[i].value.form = "str"
                      /\ section[i].value.text # "")
                      => "invalid header value" \in Messages(warned)
               /\ (~\E i \in 1..Len(section) :
                      /\ section[i].key.name = "bpm"
                      /\ section[i].value.form \in {"int", "float"})
                      => "missing bpm" \in Messages(warned)
               /\ ~Terminated(input) => "unterminated line" \in Messages(warned)

\* The last Line of a player's sequence, if there is one, has no line break.
LastIsTerminal(player) ==
    player # <<>> => player[Len(player)].line_break = <<>>

\* C24: in the chart try_parse returns, the last Line of player 1 and the last
\* Line of player 2 have the terminal line break None.
C24_LastLineIsTerminal ==
    (tstage = "returned" /\ song.parsed) =>
        /\ LastIsTerminal(song.notes.player_1)
        /\ LastIsTerminal(song.notes.player_2)

\* A chart returned for a text whose last line before "E" is a line break: the
\* Line that the break ended is the last one of player 1.
C24_Witness ==
    /\ tstage = "returned"
    /\ song.parsed
    /\ Len(input) >= 2
    /\ input[Len(input)].t = "E"
    /\ input[Len(input) - 1].t = "-"
    /\ input[Len(input) - 1].beats = <<8>>
    /\ Len(song.notes.player_1) = 1
    /\ Len(song.notes.player_1[1].notes) = 2

\* The record ends a Line: "E", "P2" or a line break with a beat value.
EndsLine(ln) == ln.t \in {"E", "P2"} \/ (ln.t = "-" /\ ln.beats # <<>>)

\* The position of the first record of the lines that ends a Line, 0 if none.
FirstEnd(lines) ==
    IF \E i \in 1..Len(lines) : EndsLine(lines[i])
    THEN CHOOSE i \in 1..Len(lines) :
             EndsLine(lines[i]) /\ \A j \in 1..(i - 1) : ~EndsLine(lines[j])
    ELSE 0

\* The lines that a Line.parse call reads before the record that ends its
\* Line.
ReadBeforeEnd(lines) ==
    IF FirstEnd(lines) = 0 THEN lines ELSE SubSeq(lines, 1, FirstEnd(lines) - 1)

\* C25: in every Line.parse call, a "-" record without a beat value adds a
\* warning and does not end the Line (the notes after it belong to the same
\* Line); a line break with one beat value or two ends the Line with exactly
\* these values, and what follows the values on its line is the first of the
\* lines left for the next call.
C25_LineBreakRecords ==
    [][LineParse =>
          LET k == FirstEnd(stream)
              read == ReadBeforeEnd(stream)
              valid == SelectSeq(read, is_note)
          IN /\ Count(warned', "invalid line break")
                    = Count(warned, "invalid line break")
                        + Cardinality({i \in 1..Len(read) : read[i].t = "-"})
             /\ cur'[1].notes = [i \in 1..Len(valid) |-> Note_parse(valid[i])]
             /\ (k # 0 /\ stream[k].t = "-") =>
                    /\ cur'[1].line_break = stream[k].beats
                    /\ stream' = stream[k].next \o SubSeq(stream, k + 1, Len(stream))]_vars

\* A Line.parse call has dropped a "-" without a beat value, read a note after
\* it and ended the Line with the pair (8, 9); the note that followed the
\* pair on its line is the next line to be read.
C25_Witness ==
    /\ cur # <<>>
    /\ cur[1].line_break = <<8, 9>>
    /\ cur[1].notes # <<>>
    /\ "invalid line break" \in Messages(warned)
    /\ stream # <<>>
    /\ Head(stream) = NoteLine(4, "li")

\* A header line with a value whose name the parser does not know.
Unrecognized(ln) ==
    /\ ln.t = "#"
    /\ HasValue(ln)
    /\ ln.key.name \notin Fields \cup {"author"}

\* The first line of the written text with that name and that value, 0 if
\* there is none.
WrittenAt(text, ln) ==
    IF \E j \in 1..Len(text) :
           text[j].t = "#" /\ text[j].key = ln.key /\ text[j].value = ln.value
    THEN CHOOSE j \in 1..Len(text) :
             /\ text[j].t = "#" /\ text[j].key = ln.key /\ text[j].value = ln.value
             /\ \A i \in 1..(j - 1) :
                   ~(text[i].t = "#" /\ text[i].key = ln.key
                        /\ text[i].value = ln.value)
    ELSE 0

\* C21 (as claimed): the text written for the chart parsed from a text with
\* title and artist holds every unrecognized header of that text under its
\* name, as it is spelled there, with its value, and these headers follow
\* each other as they do in the text.
C21_UnknownHeadersSurvive ==
    (output # <<>>) =>
        LET section == LeadingHeaders(input)
            unknown == SelectSeq(section, Unrecognized)
        IN /\ \A i \in 1..Len(unknown) : WrittenAt(output, unknown[i]) # 0
           /\ \A i, j \in 1..Len(unknown) :
                  (i < j /\ unknown[i].key.name # unknown[j].key.name
                      /\ ~\E h \in 1..(i - 1) :
                             unknown[h].key.name = unknown[j].key.name)
                      => WrittenAt(output, unknown[i]) < WrittenAt(output, unknown[j])

\* The position of a key among those Headers.__str__ writes, 0 if it writes
\* no such key.
CanonicalPosition(name) ==
    IF \E i \in 1..Len(WrittenKeys) : WrittenKeys[i] = name
    THEN CHOOSE i \in 1..Len(WrittenKeys) : WrittenKeys[i] = name
    ELSE 0

\* A line of the written text for the recognized header of that name.
WritesField(ln, name) ==
    ln.t = "#" /\ ln.key = [name |-> name, case |-> "upper"]

\* A line of the written text for a recognized header.
IsFieldLine(ln) == ln.t = "#" /\ ln.key.case = "upper" /\ ln.key.name \in Fields

\* The lines for recognized headers follow each other as their names do in
\* the canonical order.
InCanonicalOrder(text) ==
    \A i, j \in 1..Len(text) :
        (i < j /\ IsFieldLine(text[i]) /\ IsFieldLine(text[j]))
            => CanonicalPosition(text[i].key.name) < CanonicalPosition(text[j].key.name)

\* C22 (as claimed): the text written for a parsed chart has a line for a
\* recognized header exactly when the chart holds a value for it, and these
\* lines are in the canonical order.
C22_RecognizedHeadersWrittenIffPresent ==
    (output # <<>>) =>
        /\ \A name \in Fields :
               (song.headers[name] # <<>>)
                   <=> \E j \in 1..Len(output) : WritesField(output[j], name)
        /\ InCanonicalOrder(output)

\* C22 (amended): the text written for a parsed chart has a line for a
\* recognized header other than encoding exactly when the chart holds a value
\* for it, which for bpm and gap is always (they default to 0.0); it has no
\* line for encoding, whether the chart holds one or not; and the lines of
\* the recognized headers are in the canonical order.
C22_WrittenIffPresentExceptEncoding ==
    (output # <<>>) =>
        /\ \A name \in Fields \ {"encoding"} :
               (song.headers[name] # <<>>)
                   <=> \E j \in 1..Len(output) : WritesField(output[j], name)
        /\ \A name \in {"bpm", "gap"} :
               \E j \in 1..Len(output) : WritesField(output[j], name)
        /\ ~\E j \in 1..Len(output) : WritesField(output[j], "encoding")
        /\ InCanonicalOrder(output)

\* The text has been written for a chart that holds an encoding, the default
\* bpm and no language.
C22_Witness ==
    /\ output # <<>>
    /\ song.headers["encoding"] # <<>>
    /\ song.headers["bpm"] = <<0>>
    /\ song.headers["language"] = <<>>
    /\ ~YieldsField(input, "bpm")

\* The lines of the text after its first "E".
AfterEnd(text) ==
    IF Terminated(text)
    THEN SubSeq(text,
                (CHOOSE i \in 1..Len(text) :
                     text[i].t = "E" /\ \A j \in 1..(i - 1) : text[j].t # "E") + 1,
                Len(text))
    ELSE <<>>

\* C33 (as claimed): the chart returned for a text without "P2" has no notes
\* of player 2, and lines that follow the "E" of such a text are reported as
\* trailing text.
C33_NoPlayerTwoWithoutMarker ==
    (tstage = "returned" /\ song.parsed
        /\ ~\E i \in 1..Len(input) : input[i].t = "P2") =>
        /\ song.notes.player_2 = <<>>
        /\ AfterEnd(input) # <<>>
               => "trailing text in song txt" \in Messages(warned)

\* C36: in the chart try_parse returns, every Line of a player has a note, and
\* every Line but the last of its player has a line break of one beat or two.
WellFormedLines(player) ==
    \A i \in 1..Len(player) :
        /\ player[i].notes # <<>>
        /\ i < Len(player) => Len(player[i].line_break) \in {1, 2}

C36_LinesHaveNotesAndBreaks ==
    (tstage = "returned" /\ song.parsed) =>
        /\ WellFormedLines(song.notes.player_1)
        /\ WellFormedLines(song.notes.player_2)

\* A chart with two Lines of player 1 returned for a text in which a line
\* break follows a line break, so that one Line.parse call returned a Line
\* without notes.
C36_Witness ==
    /\ tstage = "returned"
    /\ song.parsed
    /\ Len(song.notes.player_1) = 2
    /\ \E i \in 1..(Len(input) - 1) :
           /\ input[i].t = "-" /\ input[i].beats # <<>> /\ input[i].next = <<>>
           /\ input[i + 1].t = "-" /\ input[i + 1].beats # <<>>

\* The length of the remaining text: its lines, and what follows the beat
\* values on the line of a line break counted for itself.
RECURSIVE TextLength(_)
TextLength(lines) ==
    IF lines = <<>> THEN 0
    ELSE 1 + (IF Head(lines).t = "-" THEN Len(Head(lines).next) ELSE 0)
           + TextLength(Tail(lines))

\* C37: try_parse returns for every text, and every Line.parse call of
\* _player_lines leaves less text than it found.
C37_ParsingTerminates ==
    /\ <>(tstage = "returned")
    /\ [][LineParse => TextLength(stream') < TextLength(stream)]_vars

\* A chart returned for a text without "E" in which a line break is followed
\* on its line by a note.
C37_Witness ==
    /\ tstage = "returned"
    /\ song.parsed
    /\ ~Terminated(input)
    /\ \E i \in 1..Len(input) : input[i].t = "-" /\ input[i].next # <<>>
    /\ stream = <<>>

====
